---- MODULE Spec2Model ----
(***************************************************************************)
(* MyCollection: the import of scraped Hot Wheels models into the          *)
(* cars/variants tables (backend/import_hotwheels.py) and the /identify    *)
(* endpoint with its feature matcher (backend/app/main.py).                *)
(*                                                                         *)
(* Python values are tagged records so that None, ints and strings can be  *)
(* compared with one another the way Python compares them.  Strings are    *)
(* TLA+ strings, taken apart with Len, SubSeq and \o.                      *)
(***************************************************************************)
EXTENDS Integers, Sequences, FiniteSets, TLC

\* ------------------------------------------------------------------------
\* Bounds of the model
\* ------------------------------------------------------------------------
\* models in one JSON file handed to import_data
MaxModels == 2
\* rows of the variants table
MaxVariants == 2
\* the longest generated text a field normalizer is called with
MaxTextLen == 4
\* the most data rows of a versions table
MaxRows == 2
\* the most requests request_count of get_all_pages is counted to
MaxRequestCount == 3
\* POST /collection requests, which may overlap
MaxRequests == 2
\* runs of import_data on one JSON file
MaxRuns == 2

\* ------------------------------------------------------------------------
\* Python values
\* ------------------------------------------------------------------------
None == [t |-> "none", i |-> 0, s |-> ""]

I(n) == [t |-> "int", i |-> n, s |-> ""]

S(x) == [t |-> "str", i |-> 0, s |-> x]

\* bool(v): None, 0 and "" are falsy
Truthy(v) == (v.t = "int" /\ v.i # 0) \/ (v.t = "str" /\ v.s # "")

\* Python's `a or b`
Or(a, b) == IF Truthy(a) THEN a ELSE b

\* ------------------------------------------------------------------------
\* str methods
\* ------------------------------------------------------------------------
Digits == {"0", "1", "2", "3", "4", "5", "6", "7", "8", "9"}

LowerLetters == "abcdefghijklmnopqrstuvwxyz"

UpperLetters == "ABCDEFGHIJKLMNOPQRSTUVWXYZ"

Char(s, i) == SubSeq(s, i, i)

IsDigit(c) == c \in Digits

\* str.isspace() on the characters of the model's alphabet
IsSpace(c) == c \in {" ", "\t", "\n"}

UpperMap == [c \in {Char(LowerLetters, k) : k \in 1..26} |->
               Char(UpperLetters, CHOOSE k \in 1..26 : Char(LowerLetters, k) = c)]

LowerMap == [c \in {Char(UpperLetters, k) : k \in 1..26} |->
               Char(LowerLetters, CHOOSE k \in 1..26 : Char(UpperLetters, k) = c)]

UpperChar(c) == IF c \in DOMAIN UpperMap THEN UpperMap[c] ELSE c

LowerChar(c) == IF c \in DOMAIN LowerMap THEN LowerMap[c] ELSE c

RECURSIVE Upper(_)
Upper(s) == IF s = "" THEN "" ELSE UpperChar(Head(s)) \o Upper(Tail(s))

RECURSIVE Lower(_)
Lower(s) == IF s = "" THEN "" ELSE LowerChar(Head(s)) \o Lower(Tail(s))

RECURSIVE LStrip(_)
LStrip(s) == IF s # "" /\ IsSpace(Head(s)) THEN LStrip(Tail(s)) ELSE s

RECURSIVE RStrip(_)
RStrip(s) ==
    IF s # "" /\ IsSpace(Char(s, Len(s))) THEN RStrip(SubSeq(s, 1, Len(s) - 1)) ELSE s

Strip(s) == RStrip(LStrip(s))

\* s.replace(old, '') for a one-character old
RECURSIVE RemoveChar(_, _)
RemoveChar(s, c) ==
    IF s = "" THEN ""
    ELSE (IF Head(s) = c THEN "" ELSE Head(s)) \o RemoveChar(Tail(s), c)

\* sub in s
Contains(sub, s) ==
    \E k \in 1..(Len(s) - Len(sub) + 1) : SubSeq(s, k, k + Len(sub) - 1) = sub

\* s.split(c) for a one-character separator c
RECURSIVE SplitFrom(_, _, _, _)
SplitFrom(s, c, start, k) ==
    IF k > Len(s) THEN << SubSeq(s, start, Len(s)) >>
    ELSE IF Char(s, k) = c
         THEN << SubSeq(s, start, k - 1) >> \o SplitFrom(s, c, k + 1, k + 1)
         ELSE SplitFrom(s, c, start, k + 1)

Split(s, c) == SplitFrom(s, c, 1, 1)

\* ------------------------------------------------------------------------
\* int() and str() of the builtins
\* ------------------------------------------------------------------------
DigitValue(c) == CHOOSE d \in 0..9 : Char("0123456789", d + 1) = c

\* the digits of int's literal grammar: digit ("_"? digit)*
RECURSIVE IsDigitGroup(_)
IsDigitGroup(s) ==
    /\ s # ""
    /\ IsDigit(Head(s))
    /\ \/ Len(s) = 1
       \/ IsDigitGroup(Tail(s))
       \/ (Len(s) >= 3 /\ Char(s, 2) = "_" /\ IsDigitGroup(SubSeq(s, 3, Len(s))))

RECURSIVE DigitsToInt(_, _)
DigitsToInt(s, acc) ==
    IF s = "" THEN acc
    ELSE IF Head(s) = "_" THEN DigitsToInt(Tail(s), acc)
    ELSE DigitsToInt(Tail(s), 10 * acc + DigitValue(Head(s)))

Unsigned(s) == IF s # "" /\ Head(s) \in {"+", "-"} THEN Tail(s) ELSE s

\* int(s) does not raise ValueError
IntOk(s) == IsDigitGroup(Unsigned(Strip(s)))

\* int(s), where IntOk(s)
IntOf(s) ==
    LET b == Strip(s)
    IN  IF Head(b) = "-" THEN 0 - DigitsToInt(Tail(b), 0) ELSE DigitsToInt(Unsigned(b), 0)

RECURSIVE NatToStr(_)
NatToStr(n) ==
    IF n < 10 THEN Char("0123456789", n + 1)
    ELSE NatToStr(n \div 10) \o Char("0123456789", (n % 10) + 1)

\* str(v)
Str(v) ==
    IF v.t = "str" THEN v.s
    ELSE IF v.t = "none" THEN "None"
    ELSE IF v.i < 0 THEN "-" \o NatToStr(0 - v.i) ELSE NatToStr(v.i)

\* ------------------------------------------------------------------------
\* Field normalizers
\* ------------------------------------------------------------------------
\* main.py: "" for a falsy argument
normalize_toy_number(toy_number) ==
    IF ~Truthy(toy_number) THEN S("")
    ELSE S(RemoveChar(Upper(Strip(Str(toy_number))), " "))

\* import_hotwheels.py: None for a falsy argument
imp_normalize_toy_number(toy_number) ==
    IF Truthy(toy_number) THEN S(RemoveChar(Upper(Strip(Str(toy_number))), " "))
    ELSE None

\* re.search(r'(\d{4})', s): the first four consecutive digits, "" when none
RECURSIVE FirstFourDigits(_)
FirstFourDigits(s) ==
    IF Len(s) < 4 THEN ""
    ELSE IF \A k \in 1..4 : IsDigit(Char(s, k)) THEN SubSeq(s, 1, 4)
    ELSE FirstFourDigits(Tail(s))

\* the en dash U+2013; the module is ASCII, so "~" stands for it in every text
EnDash == "~"

\* ' - ' in s or EnDash in s or ' to ' in s.lower()
HasRangeSeparator(s) ==
    Contains(" - ", s) \/ Contains(EnDash, s) \/ Contains(" to ", Lower(s))

parse_release_year(year_value) ==
    IF year_value = None THEN None
    ELSE IF year_value.t = "int" THEN year_value
    ELSE LET year_str == Strip(Str(year_value))
         IN  IF year_str = "" THEN None
             ELSE IF HasRangeSeparator(year_str) /\ FirstFourDigits(year_str) # ""
                  THEN I(IntOf(FirstFourDigits(year_str)))
             ELSE IF IntOk(year_str) THEN I(IntOf(year_str))
             ELSE None

\* `$` of re: the end of the string, or just before a final newline
EndsWithNewline(s) == s # "" /\ Char(s, Len(s)) = "\n"

BeforeDollar(s) == IF EndsWithNewline(s) THEN SubSeq(s, 1, Len(s) - 1) ELSE s

AfterDollar(s) == IF EndsWithNewline(s) THEN "\n" ELSE ""

\* length of the run of digits that ends s
RECURSIVE TrailingDigits(_)
TrailingDigits(s) ==
    IF s # "" /\ IsDigit(Char(s, Len(s)))
    THEN 1 + TrailingDigits(SubSeq(s, 1, Len(s) - 1))
    ELSE 0

DropLast(s, n) == SubSeq(s, 1, Len(s) - n)

\* s ends with <digits>/<digits>: the length of that suffix, else 0
FractionSuffix(s) ==
    LET d2   == TrailingDigits(s)
        rest == DropLast(s, d2)
        d1   == IF rest # "" /\ Char(rest, Len(rest)) = "/"
                THEN TrailingDigits(DropLast(rest, 1)) ELSE 0
    IN  IF d2 > 0 /\ d1 > 0 THEN d1 + 1 + d2 ELSE 0

\* re.sub(r'\d+/\d+$', '', s)
SubFraction(s) ==
    DropLast(BeforeDollar(s), FractionSuffix(BeforeDollar(s))) \o AfterDollar(s)

\* re.sub(r'\d+$', '', s)
SubDigits(s) ==
    DropLast(BeforeDollar(s), TrailingDigits(BeforeDollar(s))) \o AfterDollar(s)

\* the cleaned text is returned even when nothing is left of it
clean_series_name_emptied(series_name) ==
    IF ~Truthy(series_name) THEN None
    ELSE S(Strip(SubDigits(SubFraction(Str(series_name)))))

clean_series_name(series_name) ==
    IF ~Truthy(series_name) THEN None
    ELSE LET cleaned == Strip(SubDigits(SubFraction(Str(series_name))))
         IN  IF cleaned # "" THEN S(cleaned) ELSE series_name

\* the first two parts are parsed however many parts there are
parse_series_number_first_two(series_number_str) ==
    IF ~Truthy(series_number_str) THEN <<None, None>>
    ELSE IF ~Contains("/", Str(series_number_str)) THEN <<None, None>>
    ELSE LET parts == Split(Str(series_number_str), "/")
         IN  IF IntOk(Strip(parts[1])) /\ IntOk(Strip(parts[2]))
             THEN <<I(IntOf(Strip(parts[1]))), I(IntOf(Strip(parts[2])))>>
             ELSE <<None, None>>

\* (series_position, series_total) of a "238/250" text
parse_series_number(series_number_str) ==
    IF ~Truthy(series_number_str) THEN <<None, None>>
    ELSE IF ~Contains("/", Str(series_number_str)) THEN <<None, None>>
    ELSE LET parts == Split(Str(series_number_str), "/")
         IN  IF Len(parts) = 2 /\ IntOk(Strip(parts[1])) /\ IntOk(Strip(parts[2]))
             THEN <<I(IntOf(Strip(parts[1]))), I(IntOf(Strip(parts[2])))>>
             ELSE <<None, None>>

\* ------------------------------------------------------------------------
\* Colour comparison
\* ------------------------------------------------------------------------
\* [a-z0-9]
IsLowerAlnum(c) == IsDigit(c) \/ c \in DOMAIN UpperMap

\* re.sub(r'[^a-z0-9]+', ' ', s): inRun says that the run's blank is written
RECURSIVE SubNonAlnum(_, _)
SubNonAlnum(s, inRun) ==
    IF s = "" THEN ""
    ELSE IF IsLowerAlnum(Head(s)) THEN Head(s) \o SubNonAlnum(Tail(s), FALSE)
    ELSE (IF inRun THEN "" ELSE " ") \o SubNonAlnum(Tail(s), TRUE)

normalize_color_string(color) == Strip(SubNonAlnum(Lower(color), FALSE))

base_colors ==
    {"black", "white", "red", "blue", "green", "yellow", "orange", "purple",
     "pink", "gold", "silver", "gray", "brown", "tan", "bronze", "chrome"}

normalize_color_tokens(color) ==
    IF color = "" THEN {}
    ELSE LET text   == Strip(SubNonAlnum(Lower(color), FALSE))
             words  == SelectSeq(Split(text, " "), LAMBDA w : w # "")
             tokens == {IF words[k] = "grey" THEN "gray" ELSE words[k] : k \in 1..Len(words)}
         IN  tokens \cap base_colors

\* length of the common run of a[i..ahi] and b[j..bhi]
RECURSIVE RunLen(_, _, _, _, _, _)
RunLen(a, i, ahi, b, j, bhi) ==
    IF i <= ahi /\ j <= bhi /\ Char(a, i) = Char(b, j)
    THEN 1 + RunLen(a, i + 1, ahi, b, j + 1, bhi)
    ELSE 0

SetMax(X) == CHOOSE x \in X : \A y \in X : y <= x

SetMin(X) == CHOOSE x \in X : \A y \in X : x <= y

\* SequenceMatcher.find_longest_match without junk: the longest common block
\* of a[alo..ahi] and b[blo..bhi], earliest in a, then earliest in b
find_longest_match(a, alo, ahi, b, blo, bhi) ==
    LET size == SetMax({RunLen(a, i, ahi, b, j, bhi) : i \in alo..ahi, j \in blo..bhi})
        i0   == SetMin({i \in alo..ahi : \E j \in blo..bhi : RunLen(a, i, ahi, b, j, bhi) = size})
        j0   == SetMin({j \in blo..bhi : RunLen(a, i0, ahi, b, j, bhi) = size})
    IN  <<i0, j0, size>>

\* sum of the sizes of SequenceMatcher.get_matching_blocks
RECURSIVE MatchedChars(_, _, _, _, _, _)
MatchedChars(a, alo, ahi, b, blo, bhi) ==
    IF alo > ahi \/ blo > bhi THEN 0
    ELSE LET m == find_longest_match(a, alo, ahi, b, blo, bhi)
         IN  IF m[3] = 0 THEN 0
             ELSE m[3] + MatchedChars(a, alo, m[1] - 1, b, blo, m[2] - 1)
                       + MatchedChars(a, m[1] + m[3], ahi, b, m[2] + m[3], bhi)

\* SequenceMatcher(None, a, b).ratio() = 2.0 * matches / (len(a) + len(b)),
\* kept as the fraction num/den
fuzzy_ratio(a, b) ==
    IF a = "" \/ b = "" THEN [num |-> 0, den |-> 1]
    ELSE [num |-> 2 * MatchedChars(a, 1, Len(a), b, 1, Len(b)), den |-> Len(a) + Len(b)]

\* similarity >= 0.8
RatioAtLeast08(r) == 5 * r.num >= 4 * r.den

\* ------------------------------------------------------------------------
\* The feature matcher
\* ------------------------------------------------------------------------
\* A score is a float64.  It is written in thousandths, the last digit
\* recording how the double differs from the decimal: 669 is
\* 0.6699999999999999, 670 is 0.67, 581 is 0.5800000000000001.  The order and
\* the equality of the written numbers are those of the doubles.
WeightYear == 300

WeightSeries == 250

WeightColorSubstring == 200

WeightColorTokens == 120

WeightColorFuzzy == 80

WeightSeriesNumber == 250

ConfidenceThreshold == 800

\* float64 `score += w` on the sums the matcher can form: every one is the
\* double nearest the decimal sum but (0.3 + 0.12) + 0.25 and (0.25 + 0.08) + 0.25
FloatAdd(x, w) ==
    IF x = 420 /\ w = 250 THEN 669
    ELSE IF x = 330 /\ w = 250 THEN 581
    ELSE x + w

YearMatches(variant, year) ==
    /\ year # None
    /\ variant.release_year # None
    /\ year = variant.release_year

SeriesMatches(variant, series) ==
    /\ Truthy(series)
    /\ Truthy(variant.series_name)
    /\ LET series_cleaned         == clean_series_name(series)
           variant_series_cleaned == clean_series_name(variant.series_name)
       IN  /\ Truthy(series_cleaned)
           /\ Truthy(variant_series_cleaned)
           /\ LET series_lower         == Strip(Lower(Str(series_cleaned)))
                  variant_series_lower == Strip(Lower(Str(variant_series_cleaned)))
              IN  \/ Contains(series_lower, variant_series_lower)
                  \/ Contains(variant_series_lower, series_lower)

\* the colour tiers with the token tier tried before the substring tier
ColorWeightTokensFirst(variant, color) ==
    IF ~(Truthy(color) /\ Truthy(variant.body_color)) THEN 0
    ELSE LET color_lower         == Strip(Lower(Str(color)))
             variant_color_lower == Strip(Lower(Str(variant.body_color)))
         IN  IF normalize_color_tokens(color_lower)
                  \cap normalize_color_tokens(variant_color_lower) # {}
             THEN WeightColorTokens
             ELSE IF \/ Contains(color_lower, variant_color_lower)
                     \/ Contains(variant_color_lower, color_lower)
             THEN WeightColorSubstring
             ELSE 0

\* what the colour adds to the score: the first tier that applies, else 0
ColorWeight(variant, color) ==
    IF ~(Truthy(color) /\ Truthy(variant.body_color)) THEN 0
    ELSE LET color_lower         == Strip(Lower(Str(color)))
             variant_color_lower == Strip(Lower(Str(variant.body_color)))
         IN  IF \/ Contains(color_lower, variant_color_lower)
                \/ Contains(variant_color_lower, color_lower)
             THEN WeightColorSubstring
             ELSE IF normalize_color_tokens(color_lower)
                       \cap normalize_color_tokens(variant_color_lower) # {}
             THEN WeightColorTokens
             ELSE IF RatioAtLeast08(fuzzy_ratio(normalize_color_string(color_lower),
                                                normalize_color_string(variant_color_lower)))
             THEN WeightColorFuzzy
             ELSE 0

SeriesNumberMatches(variant, series_position, series_total) ==
    /\ series_position # None
    /\ series_total # None
    /\ variant.series_position = series_position
    /\ variant.series_total = series_total

\* `if <condition>: score += w`
AddIf(score, condition, w) == IF condition THEN FloatAdd(score, w) ELSE score

\* `if <condition>: matches += 1`
CountIf(condition) == IF condition THEN 1 ELSE 0

\* the body of the matcher's loop: the score and the match count of one variant
VariantScore(variant, year, series, color, series_position, series_total) ==
    [score   |-> AddIf(AddIf(AddIf(AddIf(0, YearMatches(variant, year), WeightYear),
                                   SeriesMatches(variant, series), WeightSeries),
                             ColorWeight(variant, color) > 0, ColorWeight(variant, color)),
                       SeriesNumberMatches(variant, series_position, series_total),
                       WeightSeriesNumber),
     matches |-> CountIf(YearMatches(variant, year))
                 + CountIf(SeriesMatches(variant, series))
                 + CountIf(ColorWeight(variant, color) > 0)
                 + CountIf(SeriesNumberMatches(variant, series_position, series_total))]

\* best_match = None: no variant scored above 0
NoMatch == [found |-> FALSE, index |-> 0, score |-> 0, matches |-> 0]

\* `if score > best_score`
BetterLast(score, best_score) == score >= best_score

Better(score, best_score) == score > best_score

\* the end of the loop's body for the k-th variant, r its score and matches
Keep(best, k, r) ==
    IF Better(r.score, best.score)
    THEN [found |-> TRUE, index |-> k, score |-> r.score, matches |-> r.matches]
    ELSE best

\* the state of the matcher's loop: best_match, and the score of each variant
\* it has passed, in order
Passed(acc, k, r) ==
    [best_match |-> Keep(acc.best_match, k, r), scores |-> Append(acc.scores, r.score)]

\* the loop of the matcher from the k-th variant on; best_match.index is the
\* place of best_match['variant'] in variants
RECURSIVE MatchLoop(_, _, _, _, _, _, _, _)
MatchLoop(vs, k, acc, year, series, color, series_position, series_total) ==
    IF k > Len(vs) THEN acc
    ELSE MatchLoop(vs, k + 1,
                   Passed(acc, k, VariantScore(vs[k], year, series, color,
                                               series_position, series_total)),
                   year, series, color, series_position, series_total)

\* the matcher's result best_match, with the scores its loop computed
match_variant_by_features(vs, year, series, color, series_position, series_total) ==
    IF vs = <<>> THEN [best_match |-> NoMatch, scores |-> <<>>]
    ELSE MatchLoop(vs, 1, [best_match |-> NoMatch, scores |-> <<>>],
                   year, series, color, series_position, series_total)

\* ------------------------------------------------------------------------
\* GET /identify/{code}
\* ------------------------------------------------------------------------
NoCar == [id |-> 0, model_name |-> None, page_title |-> None, variants |-> <<>>]

\* IdentifyResponse(car=CarSchema with the car's variants), or the 404
build_car_response(carsT, variantsT, car_id) ==
    LET found == SelectSeq(carsT, LAMBDA c : c.id = car_id)
    IN  IF found = <<>> THEN [status |-> 404, car |-> NoCar]
        ELSE [status |-> 200,
              car    |-> [id         |-> found[1].id,
                          model_name |-> found[1].model_name,
                          page_title |-> found[1].page_title,
                          variants   |-> SelectSeq(variantsT, LAMBDA v : v.car_id = car_id)]]

\* code_normalized: the normalized code, cut at its first "-"
CodeNormalized(code) ==
    LET n == Str(normalize_toy_number(code))
    IN  IF Contains("-", n) THEN Split(n, "-")[1] ELSE n

\* a select with LIKE '%code%' in place of the equality
SelectByToyNumberLike(variantsT, code_normalized) ==
    SelectSeq(variantsT,
              LAMBDA v : /\ v.toy_number.t = "str"
                         /\ Contains(code_normalized, v.toy_number.s))

\* select(Variant).where(Variant.toy_number == code_normalized).  The rows come
\* in table order; an import file lists its models in any order, so every
\* order of the same rows is the table order of some reachable state.
SelectByToyNumber(variantsT, code_normalized) ==
    SelectSeq(variantsT, LAMBDA v : v.toy_number = S(code_normalized))

\* `best_match and best_match['score'] > 0.8`
IsConfidentAt(best_match) == best_match.found /\ best_match.score >= ConfidenceThreshold

IsConfident(best_match) == best_match.found /\ best_match.score > ConfidenceThreshold

\* the car the handler answers with when the best match is not confident
FallbackLastCar(found) == found[Len(found)].car_id

FallbackCarId(found) ==
    IF Cardinality({found[k].car_id : k \in 1..Len(found)}) = 1
    THEN CHOOSE id \in {found[k].car_id : k \in 1..Len(found)} : TRUE
    ELSE found[1].car_id

\* <<series_position, series_total>> of the query
QueryFraction(series_number) ==
    IF Truthy(series_number) THEN parse_series_number(series_number) ELSE <<None, None>>

\* the handler from the result of the matcher on
Answer(carsT, variantsT, found, parsed, matched) ==
    [branch          |-> IF IsConfident(matched.best_match) THEN "confident" ELSE "fallback",
     series_position |-> parsed[1],
     series_total    |-> parsed[2],
     best_match      |-> matched.best_match,
     scores          |-> matched.scores,
     resp            |-> build_car_response(carsT, variantsT,
                             IF IsConfident(matched.best_match)
                             THEN found[matched.best_match.index].car_id
                             ELSE FallbackCarId(found))]

\* the handler for two variants or more, parsed the fraction of the query
Disambiguate(carsT, variantsT, found, year, series, color, parsed) ==
    Answer(carsT, variantsT, found, parsed,
           match_variant_by_features(found, year, series, color, parsed[1], parsed[2]))

\* the handler without its shortcut for a single variant
identify_car_scored(carsT, variantsT, found, year, series, color, series_number) ==
    IF found = <<>>
    THEN [branch |-> "not_found", series_position |-> None, series_total |-> None,
          best_match |-> NoMatch, scores |-> <<>>,
          resp |-> [status |-> 404, car |-> NoCar]]
    ELSE Disambiguate(carsT, variantsT, found, year, series, color,
                      QueryFraction(series_number))

\* the handler after the select: the branch it takes and its response
identify_car(carsT, variantsT, found, year, series, color, series_number) ==
    IF found = <<>>
    THEN [branch |-> "not_found", series_position |-> None, series_total |-> None,
          best_match |-> NoMatch, scores |-> <<>>,
          resp |-> [status |-> 404, car |-> NoCar]]
    ELSE IF Len(found) = 1
    THEN [branch |-> "only_one", series_position |-> None, series_total |-> None,
          best_match |-> NoMatch, scores |-> <<>>,
          resp |-> build_car_response(carsT, variantsT, found[1].car_id)]
    ELSE Disambiguate(carsT, variantsT, found, year, series, color,
                      QueryFraction(series_number))

\* ------------------------------------------------------------------------
\* import_data
\* ------------------------------------------------------------------------
\* A JSON model is a record with the keys model_name, page_title, toy_number,
\* release_year, series_name, series_number, series_position, series_total,
\* body_color (Python values) and versions, the list raw_infobox['versions'].
\* A version has the keys of NoVersion.  A missing key holds None.
NoVersion ==
    [toy_number |-> None, year |-> None, release_year |-> None, series |-> None,
     series_name |-> None, series_position |-> None, series_total |-> None,
     body_color |-> None]

\* raw_infobox['versions'] when it is a list, else []
extract_versions(model) == model.versions

\* the model overlaid with the version's values that are not None
build_variant_source(model, version) ==
    LET mapped_version ==
            [toy_number      |-> version.toy_number,
             release_year    |-> Or(version.year, version.release_year),
             series_name     |-> Or(version.series, version.series_name),
             series_position |-> version.series_position,
             series_total    |-> version.series_total,
             body_color      |-> version.body_color]
    IN  [f \in DOMAIN model |->
            IF f \in DOMAIN mapped_version
            THEN (IF mapped_version[f] # None THEN mapped_version[f] ELSE model[f])
            ELSE model[f]]

\* the key of cars_by_name a model goes under
ModelKey(model) == IF Truthy(model.model_name) THEN model.model_name ELSE model.page_title

\* the models that have a model_name or a page_title
NamedModels(models) ==
    SelectSeq(models, LAMBDA m : Truthy(m.model_name) \/ Truthy(m.page_title))

\* the keys of cars_by_name, in the order of their first model
RECURSIVE GroupKeys(_, _)
GroupKeys(models, seen) ==
    IF models = <<>> THEN <<>>
    ELSE IF ModelKey(Head(models)) \in seen THEN GroupKeys(Tail(models), seen)
    ELSE <<ModelKey(Head(models))>>
           \o GroupKeys(Tail(models), seen \cup {ModelKey(Head(models))})

\* cars_by_name[key]
ModelsList(models, key) == SelectSeq(NamedModels(models), LAMBDA m : ModelKey(m) = key)

\* next((m.get('page_title') for m in models_list if m.get('page_title')), None)
FirstPageTitle(models_list) ==
    LET titled == SelectSeq(models_list, LAMBDA m : Truthy(m.page_title))
    IN  IF titled = <<>> THEN None ELSE titled[1].page_title

\* car_variant_sources of one casting, before the toy_number filter
RECURSIVE VariantSources(_)
VariantSources(models_list) ==
    IF models_list = <<>> THEN <<>>
    ELSE LET model    == Head(models_list)
             versions == extract_versions(model)
         IN  (IF versions # <<>>
              THEN [k \in 1..Len(versions) |-> build_variant_source(model, versions[k])]
              ELSE <<build_variant_source(model, NoVersion)>>)
             \o VariantSources(Tail(models_list))

\* the filter of the sources that have no toy_number
Identifiable(sources) ==
    SelectSeq(sources, LAMBDA v : Truthy(imp_normalize_toy_number(v.toy_number)))

\* try: parts = text.split('/'); if len(parts) == 2: position = int(parts[0]);
\* total = int(parts[1]); except: pass -- position keeps its value when
\* int(parts[1]) raises
SplitFraction(text) ==
    LET parts == Split(text, "/")
    IN  IF Len(parts) # 2 \/ ~IntOk(parts[1]) THEN <<None, None>>
        ELSE IF ~IntOk(parts[2]) THEN <<I(IntOf(parts[1])), None>>
        ELSE <<I(IntOf(parts[1])), I(IntOf(parts[2]))>>

\* toy_number contains "/": it is a series position, not a toy number
IsSeriesFraction(toy_number) == Truthy(toy_number) /\ Contains("/", Str(toy_number))

\* the toy_number the row is given: the normalized one, None for a fraction
RowToyNumberKept(toy_number) == toy_number

RowToyNumber(toy_number) == IF IsSeriesFraction(toy_number) THEN None ELSE toy_number

\* <<series_position, series_total>> of the row; toy_number is the normalized one
RowSeries(variant_source, toy_number) ==
    IF IsSeriesFraction(toy_number) THEN SplitFraction(Str(toy_number))
    ELSE IF /\ variant_source.series_position # None
            /\ variant_source.series_total # None
    THEN <<variant_source.series_position, variant_source.series_total>>
    ELSE IF /\ Truthy(variant_source.series_number)
            /\ Contains("/", Str(variant_source.series_number))
    THEN SplitFraction(Str(variant_source.series_number))
    ELSE <<None, None>>

\* the select for a variant that is already stored
ExistingVariant(variantsT, car_id, toy_number, release_year, variant_source) ==
    \E k \in 1..Len(variantsT) :
        /\ variantsT[k].car_id = car_id
        /\ variantsT[k].toy_number = toy_number
        /\ variantsT[k].release_year = release_year
        /\ variantsT[k].series_name = variant_source.series_name
        /\ variantsT[k].body_color = variant_source.body_color

\* one pass of the loop over the sources of a casting: the mapping appended
\* to variants_to_insert, with skip set when the variant is already stored
VariantRow(variant_source, variantsT, car_id, id) ==
    LET normalized   == imp_normalize_toy_number(variant_source.toy_number)
        toy_number   == RowToyNumber(normalized)
        series       == RowSeries(variant_source, normalized)
        release_year == parse_release_year(variant_source.release_year)
    IN  [skip |-> ExistingVariant(variantsT, car_id, toy_number, release_year,
                                  variant_source),
         row  |-> [id              |-> id,
                   car_id          |-> car_id,
                   toy_number      |-> toy_number,
                   release_year    |-> release_year,
                   series_name     |-> clean_series_name(variant_source.series_name),
                   series_position |-> series[1],
                   series_total    |-> series[2],
                   body_color      |-> variant_source.body_color]]

\* the loop over the sources of one casting: acc is variants_to_insert, each
\* mapping with the source it was made from; uuid4() is the next free number
RECURSIVE AppendRows(_, _, _, _, _)
AppendRows(acc, sources, variantsT, car_id, dry_run) ==
    IF sources = <<>> THEN acc
    ELSE LET made == VariantRow(Head(sources), variantsT, car_id,
                                Len(variantsT) + Len(acc) + 1)
         IN  AppendRows(IF made.skip \/ dry_run THEN acc
                        ELSE Append(acc, [source |-> Head(sources), row |-> made.row]),
                        Tail(sources), variantsT, car_id, dry_run)

\* the loop over cars_by_name: acc holds cars_to_insert and variants_to_insert
RECURSIVE ImportLoop(_, _, _, _, _, _)
ImportLoop(acc, keys, models, carsT, variantsT, dry_run) ==
    IF keys = <<>> THEN acc
    ELSE LET model_name  == Head(keys)
             models_list == ModelsList(models, model_name)
             sources     == Identifiable(VariantSources(models_list))
             existing    == SelectSeq(carsT, LAMBDA c : c.model_name = model_name)
             car_id      == IF existing # <<>> THEN existing[1].id
                            ELSE Len(carsT) + Len(acc.cars_to_insert) + 1
         IN  IF sources = <<>>
             THEN ImportLoop(acc, Tail(keys), models, carsT, variantsT, dry_run)
             ELSE ImportLoop(
                      [cars_to_insert |->
                           IF existing # <<>> THEN acc.cars_to_insert
                           ELSE Append(acc.cars_to_insert,
                                       [id         |-> car_id,
                                        model_name |-> model_name,
                                        page_title |-> FirstPageTitle(models_list)]),
                       variants_to_insert |->
                           AppendRows(acc.variants_to_insert, sources, variantsT,
                                      car_id, dry_run)],
                      Tail(keys), models, carsT, variantsT, dry_run)

\* what import_data prepares for the bulk inserts
Prepared(models, carsT, variantsT, dry_run) ==
    ImportLoop([cars_to_insert |-> <<>>, variants_to_insert |-> <<>>],
               GroupKeys(NamedModels(models), {}), models, carsT, variantsT, dry_run)

BatchSize == 1000

\* variants.toy_number is declared `str`: the column is NOT NULL and the
\* insert of a batch with a None toy_number raises IntegrityError
NotNullViolation(batch) == \E k \in 1..Len(batch) : batch[k].toy_number = None

\* the batches of bulk_insert_mappings, each committed on its own; the first
\* batch that raises ends the import
RECURSIVE InsertBatches(_, _)
InsertBatches(variantsT, rows) ==
    IF rows = <<>> THEN variantsT
    ELSE LET n     == IF Len(rows) < BatchSize THEN Len(rows) ELSE BatchSize
             batch == SubSeq(rows, 1, n)
         IN  IF NotNullViolation(batch) THEN variantsT
             ELSE InsertBatches(variantsT \o batch, SubSeq(rows, n + 1, Len(rows)))

\* ------------------------------------------------------------------------
\* download_hotwheels.py: the extractors
\* ------------------------------------------------------------------------
\* A wiki page is held the way the extractors' regular expressions take it
\* apart.  Every text of a page is plain: it has no tags, no entities and no
\* wiki markup, so that stripping them leaves it as it is.
\*   title      the page title
\*   html_text  TRUE when the rendered HTML is a non-empty document
\*   infobox    found:  a portable-infobox container matched
\*              name:   the content of <h2 data-source="name">, "" without one
\*              data:   the <<data-source, pi-data-value>> pairs, in order
\*              labels: the <<pi-data-label, pi-data-value>> pairs, in order
\*   tables     the <table> elements, each the sequence of its rows, a row
\*              the sequence of its cells' contents
\*   wikitext   text:   the wikitext is a non-empty string
\*              found:  an infobox template matched
\*              params: its <<key, value>> parameters, in order
\* A map (a Python dict with string keys) is a function on a set of strings.
EmptyMap == [k \in {} |-> ""]

\* map[key] = value
Put(map, key, value) ==
    [k \in (DOMAIN map) \cup {key} |-> IF k = key THEN value ELSE map[k]]

\* s.replace(old, new) for one-character old and new
RECURSIVE ReplaceChar(_, _, _)
ReplaceChar(s, old, new) ==
    IF s = "" THEN ""
    ELSE (IF Head(s) = old THEN new ELSE Head(s)) \o ReplaceChar(Tail(s), old, new)

\* every run of whitespace of s written as one blank
RECURSIVE Squeeze(_, _)
Squeeze(s, inRun) ==
    IF s = "" THEN ""
    ELSE IF IsSpace(Head(s)) THEN (IF inRun THEN "" ELSE " ") \o Squeeze(Tail(s), TRUE)
    ELSE Head(s) \o Squeeze(Tail(s), FALSE)

\* ' '.join(s.split())
JoinSplit(s) == Strip(Squeeze(s, FALSE))

\* the h2 with data-source="name"
HtmlName(infobox) ==
    IF Strip(infobox.name) # "" THEN Put(EmptyMap, "name", Strip(infobox.name))
    ELSE EmptyMap

\* the loop over data_matches
RECURSIVE DataItems(_, _)
DataItems(map, data) ==
    IF data = <<>> THEN map
    ELSE DataItems(IF JoinSplit(Head(data)[2]) # ""
                   THEN Put(map, Strip(Lower(Head(data)[1])), JoinSplit(Head(data)[2]))
                   ELSE map,
                   Tail(data))

\* the loop over label_matches
RECURSIVE LabelItems(_, _)
LabelItems(map, labels) ==
    IF labels = <<>> THEN map
    ELSE LabelItems(IF /\ ReplaceChar(Lower(Strip(Head(labels)[1])), " ", "_") # ""
                       /\ JoinSplit(Head(labels)[2]) # ""
                    THEN Put(map, ReplaceChar(Lower(Strip(Head(labels)[1])), " ", "_"),
                             JoinSplit(Head(labels)[2]))
                    ELSE map,
                    Tail(labels))

\* the label-value pairs are read only when name and data items gave nothing
LabelsIfEmpty(map, infobox) ==
    IF DOMAIN map = {} THEN LabelItems(EmptyMap, infobox.labels) ELSE map

extract_from_html_infobox(infobox) ==
    IF ~infobox.found THEN EmptyMap
    ELSE LabelsIfEmpty(DataItems(HtmlName(infobox), infobox.data), infobox)

\* clean_wikitext_value of a plain text
clean_wikitext_value(value) == IF value = "" THEN "" ELSE Strip(JoinSplit(value))

\* key.strip().lower().replace(' ', '_').replace('-', '_')
ParamKey(key) == ReplaceChar(ReplaceChar(Lower(Strip(key)), " ", "_"), "-", "_")

\* the loop over params
RECURSIVE ParamItems(_, _)
ParamItems(map, params) ==
    IF params = <<>> THEN map
    ELSE ParamItems(IF clean_wikitext_value(Strip(Head(params)[2])) # ""
                    THEN Put(map, ParamKey(Head(params)[1]),
                             clean_wikitext_value(Strip(Head(params)[2])))
                    ELSE map,
                    Tail(params))

extract_from_wikitext(wikitext) ==
    IF ~wikitext.found THEN EmptyMap ELSE ParamItems(EmptyMap, wikitext.params)

\* the HTML strategy's answer as extract_infobox_data continues with it
FromHtml(page, html_data) ==
    IF DOMAIN html_data # {}
    THEN [infobox_data |-> html_data, strategies |-> <<"html">>]
    ELSE IF page.wikitext.text
    THEN [infobox_data |-> extract_from_wikitext(page.wikitext),
          strategies   |-> <<"html", "wikitext">>]
    ELSE [infobox_data |-> html_data, strategies |-> <<"html">>]

\* both strategies run and their maps are merged, the template's keys last
extract_infobox_data_merged(page) ==
    [infobox_data |->
         [k \in DOMAIN extract_from_html_infobox(page.infobox) \cup
                DOMAIN extract_from_wikitext(page.wikitext) |->
             IF k \in DOMAIN extract_from_wikitext(page.wikitext)
             THEN extract_from_wikitext(page.wikitext)[k]
             ELSE extract_from_html_infobox(page.infobox)[k]],
     strategies |-> <<"html", "wikitext">>]

\* infobox_data and the strategies that were run, in order
extract_infobox_data(page) ==
    IF page.html_text THEN FromHtml(page, extract_from_html_infobox(page.infobox))
    ELSE IF page.wikitext.text
    THEN [infobox_data |-> extract_from_wikitext(page.wikitext),
          strategies   |-> <<"wikitext">>]
    ELSE [infobox_data |-> EmptyMap, strategies |-> <<>>]

\* _cell_text of a plain cell: _strip_html ends with ' '.join(text.split())
CellText(cell_html) == Strip(JoinSplit(cell_html))

\* re.search(r'Toy\s*#|Toy&nbsp;#|Toy\s*No\.?|Model\s*#|Sku', text, re.I) for a
\* text with at most one blank before "#" and "No"
NamesToyNumber(text) ==
    \E word \in {"toy#", "toy #", "toyno", "toy no", "model#", "model #", "sku"} :
        Contains(word, Lower(text))

IsHeaderRow(row) == \E k \in 1..Len(row) : NamesToyNumber(row[k])

HasHeaderRow(table) == \E k \in 1..Len(table) : IsHeaderRow(table[k])

\* the first table with a row that names the toy number, <<>> without one
RECURSIVE VersionsTable(_)
VersionsTable(tables) ==
    IF tables = <<>> THEN <<>>
    ELSE IF HasHeaderRow(Head(tables)) THEN Head(tables)
    ELSE VersionsTable(Tail(tables))

\* the index of the first row that names the toy number
HeaderRowIndex(rows) == SetMin({k \in 1..Len(rows) : IsHeaderRow(rows[k])})

\* re.sub(r'[\s/]+', ' ', text) and then re.sub(r'[^a-z0-9# ]+', '', text)
RECURSIVE HeaderChars(_, _)
HeaderChars(s, inRun) ==
    IF s = "" THEN ""
    ELSE IF IsSpace(Head(s)) \/ Head(s) = "/"
    THEN (IF inRun THEN "" ELSE " ") \o HeaderChars(Tail(s), TRUE)
    ELSE (IF IsLowerAlnum(Head(s)) \/ Head(s) = "#" THEN Head(s) ELSE "")
         \o HeaderChars(Tail(s), FALSE)

normalize_header(text) == Strip(HeaderChars(Lower(text), FALSE))

\* the branch of the if/elif chain a normalized header takes: the column it is
ColumnOf(header) ==
    IF Contains("interior", header) THEN "interior"
    ELSE IF Contains("window", header) THEN "window"
    ELSE IF Contains("base", header) /\ ~Contains("code", header) THEN "base"
    ELSE IF (Contains("col", header) /\ Contains("#", header))
            \/ Contains("collector", header) THEN "col"
    ELSE IF Contains("country", header) THEN "country"
    ELSE IF Contains("notes", header) THEN "notes"
    ELSE IF Contains("photo", header) THEN "photo"
    ELSE IF Contains("toy", header)
            \/ (Contains("#", header) /\ ~Contains("col", header)) THEN "toy_num"
    ELSE IF Contains("year", header) THEN "year"
    ELSE IF Contains("series", header) THEN "series"
    ELSE IF /\ Contains("color", header) /\ ~Contains("base", header)
            /\ ~Contains("window", header) /\ ~Contains("interior", header)
    THEN "color"
    ELSE IF Contains("tampo", header) THEN "tampo"
    ELSE IF Contains("wheel", header) THEN "wheel"
    ELSE ""

\* <column>_idx counted from 1: the last header of that column, 0 for None
ColumnIndex(headers, column) ==
    SetMax({0} \cup {k \in 1..Len(headers) :
                        ColumnOf(normalize_header(Lower(CellText(headers[k])))) = column})

\* the column indices the loop over the headers leaves
ColumnIndexes(headers) ==
    [toy_num  |-> ColumnIndex(headers, "toy_num"),
     year     |-> ColumnIndex(headers, "year"),
     series   |-> ColumnIndex(headers, "series"),
     color    |-> ColumnIndex(headers, "color"),
     tampo    |-> ColumnIndex(headers, "tampo"),
     wheel    |-> ColumnIndex(headers, "wheel"),
     base     |-> ColumnIndex(headers, "base"),
     window   |-> ColumnIndex(headers, "window"),
     interior |-> ColumnIndex(headers, "interior"),
     col      |-> ColumnIndex(headers, "col"),
     country  |-> ColumnIndex(headers, "country"),
     notes    |-> ColumnIndex(headers, "notes"),
     photo    |-> ColumnIndex(headers, "photo")]

\* <column>_idx is not None and <column>_idx < len(cells)
HasCell(idx, column, cells) ==
    idx[column] # 0 /\ idx[column] <= Len(cells)

\* _cell_text of the row's cell of the column
Cell(idx, column, cells) == CellText(cells[idx[column]])

\* text if text and text != '-' else None
unless_placeholder(text) == IF text # "" /\ text # "-" THEN S(text) ELSE None

\* the column's value of the row, None when the row has no such cell
Optional(idx, column, cells) ==
    IF HasCell(idx, column, cells)
    THEN unless_placeholder(Cell(idx, column, cells))
    ELSE None

\* version['year'] = year
YearOf(idx, cells) ==
    IF HasCell(idx, "year", cells) THEN S(Cell(idx, "year", cells)) ELSE None

\* int(group(1)) and int(group(2)) of re.search(r'(\d+)/(\d+)\s*$', series)
SeriesPosition(series) ==
    I(DigitsToInt(SubSeq(series, Len(series) - FractionSuffix(series) + 1,
                         Len(series) - TrailingDigits(series) - 1), 0))

SeriesTotal(series) ==
    I(DigitsToInt(SubSeq(series, Len(series) - TrailingDigits(series) + 1,
                         Len(series)), 0))

\* the series is stored with its fraction
SeriesKept(series) ==
    IF FractionSuffix(series) = 0
    THEN [series |-> S(series), series_position |-> None, series_total |-> None]
    ELSE [series |-> S(series), series_position |-> SeriesPosition(series),
          series_total |-> SeriesTotal(series)]

\* the series cell: the match of the fraction and the re.sub that removes it
SeriesOf(series) ==
    IF FractionSuffix(series) = 0
    THEN [series |-> S(series), series_position |-> None, series_total |-> None]
    ELSE [series |-> S(Strip(DropLast(series, FractionSuffix(series)))),
          series_position |-> SeriesPosition(series),
          series_total |-> SeriesTotal(series)]

SeriesColumn(idx, cells) ==
    IF HasCell(idx, "series", cells) THEN SeriesOf(Cell(idx, "series", cells))
    ELSE [series |-> None, series_position |-> None, series_total |-> None]

\* re.split(r'\s*/\s*', base, maxsplit=1), each part stripped, '' as None
BaseParts(base) ==
    IF base = None THEN <<None, None>>
    ELSE IF ~Contains("/", base.s) THEN <<base, None>>
    ELSE LET k == SetMin({j \in 1..Len(base.s) : Char(base.s, j) = "/"})
         IN  << IF Strip(SubSeq(base.s, 1, k - 1)) # ""
                THEN S(Strip(SubSeq(base.s, 1, k - 1))) ELSE None,
                IF Strip(SubSeq(base.s, k + 1, Len(base.s))) # ""
                THEN S(Strip(SubSeq(base.s, k + 1, Len(base.s)))) ELSE None >>

\* the toy number of a data row is kept whatever the cell holds
HasToyNumberAlways(idx, cells) == HasCell(idx, "toy_num", cells)

\* the row has a toy-number cell that is neither '' nor '-'
HasToyNumber(idx, cells) ==
    /\ cells # <<>>
    /\ HasCell(idx, "toy_num", cells)
    /\ Cell(idx, "toy_num", cells) \notin {"", "-"}

\* the dict of a data row that has a toy number; a key the code does not set
\* holds None, which is what version.get(key) gives its readers.  No notes
\* cell of a page lists base codes and no photo cell holds an image or a link.
VersionOf(idx, cells) ==
    [toy_number       |-> S(RemoveChar(Upper(Cell(idx, "toy_num", cells)), " ")),
     year             |-> YearOf(idx, cells),
     series           |-> SeriesColumn(idx, cells).series,
     series_position  |-> SeriesColumn(idx, cells).series_position,
     series_total     |-> SeriesColumn(idx, cells).series_total,
     body_color       |-> Optional(idx, "color", cells),
     tampo            |-> Optional(idx, "tampo", cells),
     wheel_type       |-> Optional(idx, "wheel", cells),
     base_color       |-> BaseParts(Optional(idx, "base", cells))[1],
     base_material    |-> BaseParts(Optional(idx, "base", cells))[2],
     window_color     |-> Optional(idx, "window", cells),
     interior_color   |-> Optional(idx, "interior", cells),
     collector_number |-> Optional(idx, "col", cells),
     country          |-> Optional(idx, "country", cells),
     notes            |-> Optional(idx, "notes", cells),
     base_code        |-> None,
     photo            |-> Optional(idx, "photo", cells)]

\* the loop over the data rows
RECURSIVE DataRows(_, _)
DataRows(idx, rows) ==
    IF rows = <<>> THEN <<>>
    ELSE (IF HasToyNumber(idx, Head(rows))
          THEN <<VersionOf(idx, Head(rows))>> ELSE <<>>)
         \o DataRows(idx, Tail(rows))

\* the rows after the header row
RowsAfterHeader(rows) == SubSeq(rows, HeaderRowIndex(rows) + 1, Len(rows))

VersionsOf(rows) ==
    IF Len(rows) < 2 THEN <<>>
    ELSE DataRows(ColumnIndexes(rows[HeaderRowIndex(rows)]), RowsAfterHeader(rows))

extract_versions_table(tables) == VersionsOf(VersionsTable(tables))

\* ------------------------------------------------------------------------
\* download_hotwheels.py: the models of a page
\* ------------------------------------------------------------------------
\* key_mappings, for the keys of a model the import reads
key_mappings ==
    [model_name    |-> <<"name", "model_name", "casting_name", "title", "car_name">>,
     release_year  |-> <<"year", "release_year", "released", "release", "years",
                         "produced">>,
     toy_number    |-> <<"toy_number", "toy#", "toy", "sku", "code", "model_code",
                         "number">>,
     series_name   |-> <<"series", "series_name", "line", "debut_series">>,
     series_number |-> <<"series_number", "series#", "number_in_series">>,
     body_color    |-> <<"body_color", "color", "paint", "paint_color">>]

\* the value of the first of possible_keys that infobox_data holds; the keys
\* of infobox_data are lower case and its values are non-empty texts
RECURSIVE FirstValue(_, _)
FirstValue(infobox_data, possible_keys) ==
    IF possible_keys = <<>> THEN None
    ELSE IF Head(possible_keys) \in DOMAIN infobox_data
    THEN S(infobox_data[Head(possible_keys)])
    ELSE FirstValue(infobox_data, Tail(possible_keys))

\* a release_year that holds a range is cut to its first four digits (the
\* search of "years" and "produced" for a year runs only without a
\* release_year, and key_mappings has read both keys by then)
FirstYear(release_year) ==
    IF /\ Truthy(release_year)
       /\ Contains(" - ", Str(release_year)) \/ Contains(EnDash, Str(release_year))
       /\ FirstFourDigits(Str(release_year)) # ""
    THEN S(FirstFourDigits(Str(release_year)))
    ELSE release_year

\* the model of a page without its raw_infobox; `versions` is set when the
\* models are saved
normalize_model_data(infobox_data, page_title) ==
    [model_name      |-> Or(FirstValue(infobox_data, key_mappings.model_name),
                            S(page_title)),
     page_title      |-> S(page_title),
     toy_number      |-> FirstValue(infobox_data, key_mappings.toy_number),
     release_year    |-> FirstYear(FirstValue(infobox_data, key_mappings.release_year)),
     series_name     |-> FirstValue(infobox_data, key_mappings.series_name),
     series_number   |-> FirstValue(infobox_data, key_mappings.series_number),
     series_position |-> None,
     series_total    |-> None,
     body_color      |-> FirstValue(infobox_data, key_mappings.body_color),
     versions        |-> <<>>]

\* a version as the import reads it from the JSON file: version.get(key)
JsonVersion(version) ==
    [k \in DOMAIN NoVersion |-> IF k \in DOMAIN version THEN version[k] ELSE None]

\* raw_infobox['versions'] of every version model when the file is written:
\* each copy of base_model shares the one raw_infobox dict, so each lists all
\* the versions appended in the loop
SharedVersions(versions) == [j \in 1..Len(versions) |-> JsonVersion(versions[j])]

\* base_model.copy() overridden with the k-th version
version_model(base_model, versions, k) ==
    [base_model EXCEPT
        !.toy_number      = versions[k].toy_number,
        !.release_year    = Or(versions[k].year, base_model.release_year),
        !.series_name     = Or(versions[k].series, base_model.series_name),
        !.series_position = versions[k].series_position,
        !.series_total    = versions[k].series_total,
        !.body_color      = Or(versions[k].body_color, base_model.body_color),
        !.versions        = SharedVersions(versions)]

\* the models download_all_models saves for one page
PageModels(page_title, infobox_data, versions) ==
    IF versions # <<>>
    THEN [k \in 1..Len(versions) |->
             version_model(normalize_model_data(infobox_data, page_title), versions, k)]
    ELSE <<normalize_model_data(infobox_data, page_title)>>

\* ------------------------------------------------------------------------
\* Inputs
\* ------------------------------------------------------------------------
JsonModel(model_name, page_title, toy_number, release_year, series_name, series_number, series_position, series_total, body_color, versions) ==
    [model_name |-> model_name, page_title |-> page_title, toy_number |-> toy_number,
     release_year |-> release_year, series_name |-> series_name,
     series_number |-> series_number, series_position |-> series_position,
     series_total |-> series_total, body_color |-> body_color, versions |-> versions]

Version(toy_number, year, series, series_position, series_total, body_color) ==
    [toy_number |-> toy_number, year |-> year, release_year |-> None,
     series |-> series, series_name |-> None, series_position |-> series_position,
     series_total |-> series_total, body_color |-> body_color]

\* the JSON models an import file is made of
ModelPool ==
    { JsonModel(S("Dodge A100"), S("Dodge A100"), S("HYW54"), I(2025),
                S("Wild Widebody"), None, I(5), I(5), S("Chrome"), <<>>),
      JsonModel(S("Dodge A100"), S("Dodge A100"), S("hyw 54"), S("2010"),
                None, None, None, None, None, <<>>),
      JsonModel(S("Dodge A100"), S("Dodge A100"), S("HYW54"), I(2025),
                S("Wild Widebody"), S("5/A"), None, None, S("Dark Red"), <<>>),
      JsonModel(None, S("ID R"), S("GTK21"), None,
                None, S("5/5"), None, None, None,
                << Version(S("HYW54"), S("2025"), None, None, None, S("Dark Red")),
                   Version(S("  "), S("2010"), S("Mainline"), None, None, None) >>),
      JsonModel(S("Dodge A100"), S("Dodge A100"), S("1/10"), S("2021 - present"),
                S("Final Run"), None, None, None, None, <<>>),
      JsonModel(S("ID R"), S("ID R"), S("ab-1"), None,
                S("Final Run6/12"), S("1/A"), None, None, None, <<>>) }

\* the files of 1..MaxModels models
RECURSIVE FilesOfLength(_)
FilesOfLength(n) ==
    IF n = 0 THEN {<<>>}
    ELSE {Append(f, m) : f \in FilesOfLength(n - 1), m \in ModelPool}

ImportFiles == UNION {FilesOfLength(n) : n \in 1..MaxModels}

\* the query values of /identify
CodePool == {S("hyw 54-1"), S("AB-1")}

YearPool == {None, I(2025)}

SeriesPool == {None, S("Wild Widebody"), S("WILD WIDEBODY 5/5"), S(" ")}

ColorPool == {None, S("Chrome"), S("Crome"), S("Red Metallic")}

SeriesNumberPool == {None, S("5/5"), S("5/A")}

\* the texts of up to MaxTextLen characters a normalizer is called with
TextAlphabet == {"a", "1", " ", "/"}

RECURSIVE TextsOfLength(_)
TextsOfLength(n) ==
    IF n = 0 THEN {""}
    ELSE {t \o c : t \in TextsOfLength(n - 1), c \in TextAlphabet}

ShortTexts == UNION {TextsOfLength(n) : n \in 0..MaxTextLen}

\* texts of the wiki and of the API's callers
SampleTexts ==
    {"2021 - present", "2005~2020", "N/A", "2008", "20255 - 2030", "1999 to 2001",
     "c. 12345~", " hyw 54 ", "Hyw\t54", "2004 First Editions24/100",
     "Final Run6/12", "4", "238/250", "abc", "1/2/3", " 7 / 10 ", "Series 5 4",
     "-3/+4", "x/2"}

NormalizerArguments ==
    {None, I(0), I(2008)} \cup {S(t) : t \in ShortTexts \cup SampleTexts}

\* the pages download_hotwheels.py is run on
NoInfobox == [found |-> FALSE, name |-> "", data |-> <<>>, labels |-> <<>>]

NoWikitext == [text |-> FALSE, found |-> FALSE, params |-> <<>>]

NoPage ==
    [title |-> "", html_text |-> FALSE, infobox |-> NoInfobox, tables |-> <<>>,
     wikitext |-> NoWikitext]

InfoboxPool ==
    { NoInfobox,
      [found |-> TRUE, name |-> "", data |-> <<>>, labels |-> <<>>],
      [found |-> TRUE, name |-> " Dodge A100 ",
       data |-> << <<"Series", "  HW  Art Cars ">>, <<"years", "1999 - 2003">>,
                   <<"number", " ">> >>,
       labels |-> << <<"Debut Series", "Mainline">> >>],
      [found |-> TRUE, name |-> " ",
       data |-> << <<"series", "  ">> >>,
       labels |-> << <<"Toy Number", "GTK21">>, <<" ", "x">>, <<"Color", "">> >>] }

WikitextPool ==
    { NoWikitext,
      [text |-> TRUE, found |-> FALSE, params |-> <<>>],
      [text |-> TRUE, found |-> TRUE,
       params |-> << <<"name", "ID R">>, <<" Body-Color ", " Red  metallic">>,
                     <<"series", "">> >>],
      [text |-> TRUE, found |-> TRUE, params |-> << <<"name", " ">> >>] }

ShortHeader == <<"Toy #", "Year", "Series", "Color">>

LongHeader ==
    <<"Col #", "Year", "Series", "Color", "Tampo", "Base Color / Type",
      "Window Color", "Interior Color", "Wheel Type", "Toy #", "Country", "Notes",
      "Photo">>

ShortRows ==
    { <<"HYW54", "2025", "Wild Widebody 5/5", "Chrome">>,
      <<"-", "2025", "Mainline", "Red">>,
      <<" gtk 21 ", "-", "5/5", "-">>,
      <<"HYW55", "", "Final Run6/12">>,
      <<>> }

LongRows ==
    { <<"063", "2025", "HW Art Cars 3/10", "Dark Red", "Flames", "Black / Plastic",
        "Tinted", "Grey", "5SP", "JBC01", "Malaysia", "New casting", "-">>,
      <<"-", "-", "", "-", "-", "- / Metal", "-", "-", "-", "JBC02", "-", "-", "">>,
      <<"064", "2025", "HW Art Cars 4/10">> }

\* the sequences of n rows of a pool
RECURSIVE RowsOfLength(_, _)
RowsOfLength(pool, n) ==
    IF n = 0 THEN {<<>>}
    ELSE {Append(rows, row) : rows \in RowsOfLength(pool, n - 1), row \in pool}

\* a versions table: the header row and up to MaxRows data rows
VersionsTables ==
    UNION {{<<ShortHeader>> \o rows : rows \in RowsOfLength(ShortRows, n)} \cup
           {<<LongHeader>> \o rows : rows \in RowsOfLength(LongRows, n)} :
           n \in 0..MaxRows}

\* a table that is not a versions table
OtherTable == << <<"Name", "Value">>, <<"Designer", "Larry Wood">> >>

\* the headers that name the toy number by another word
SynonymHeaders ==
    { <<"Toy No.", "Year", "Series", "Color">>,
      <<"Model #", "Year", "Series", "Color">>,
      <<"Sku", "Year", "Series", "Color">> }

\* a header with a second "#" column, and rows for it
NumberedHeader == <<"Toy #", "Year", "Series", "Series #">>

NumberedRows ==
    { <<"HYW54", "2025", "Wild Widebody", "5/10">>,
      <<"HYW55", "2025", "Mainline", "-">> }

\* the tables of one data row under these headers
SynonymTables ==
    {<<header, row>> : header \in SynonymHeaders, row \in ShortRows}
    \cup {<<NumberedHeader, row>> : row \in NumberedRows}

TablesPool ==
    {<<>>, <<OtherTable>>} \cup {<<t>> : t \in VersionsTables \cup SynonymTables}
    \cup {<<OtherTable, t>> : t \in {v \in VersionsTables : Len(v) = 2}}

Pages ==
    {[title |-> "Dodge A100", html_text |-> TRUE, infobox |-> i, tables |-> t,
      wikitext |-> w] : i \in InfoboxPool, t \in TablesPool, w \in WikitextPool}
    \cup {[NoPage EXCEPT !.title = "Dodge A100", !.wikitext = w] : w \in WikitextPool}

\* ------------------------------------------------------------------------
\* download_hotwheels.py: the fetcher and the loop over the pages
\* ------------------------------------------------------------------------
\* The wiki: what list=allpages answers, request by request, each answer but
\* the last with an apcontinue token
AllPagesBatches ==
    << <<"Dodge A100", "Bone Shaker">>, <<"List of 2025 Hot Wheels">> >>

\* siteinfo's statistics.articles
WikiArticles == 4

categories ==
    <<"Category:Hot Wheels", "Category:Mainline", "Category:Premium",
      "Category:Treasure Hunt", "Category:Super Treasure Hunt",
      "Category:Castings", "Category:Hot Wheels by Year">>

\* what list=categorymembers answers, in one request
CategoryMembers(category) ==
    IF category = "Category:Castings" THEN <<"Bone Shaker", "Custom Otto">>
    ELSE <<>>

\* action=parse of a title of the wiki; "Custom Otto" redirects
WikiPage(title) ==
    IF title = "Dodge A100"
    THEN [title |-> "Dodge A100", html_text |-> TRUE,
          infobox |-> [found |-> TRUE, name |-> " Dodge A100 ",
                       data |-> << <<"years", "1999 - 2003">> >>, labels |-> <<>>],
          tables |-> << <<ShortHeader,
                          <<"HYW54", "2025", "Wild Widebody 5/5", "Chrome">>,
                          <<"-", "2025", "Mainline", "Red">>,
                          <<"HYW55", "", "Final Run6/12">> >> >>,
          wikitext |-> [text |-> TRUE, found |-> FALSE, params |-> <<>>]]
    ELSE IF title = "Bone Shaker"
    THEN [title |-> "Bone Shaker", html_text |-> TRUE,
          infobox |-> [found |-> TRUE, name |-> "Bone Shaker",
                       data |-> << <<"number", "GTK21">> >>, labels |-> <<>>],
          tables |-> <<OtherTable>>,
          wikitext |-> [text |-> TRUE, found |-> FALSE, params |-> <<>>]]
    ELSE IF title = "Custom Otto"
    THEN [title |-> "Custom Otto (2019)", html_text |-> TRUE, infobox |-> NoInfobox,
          tables |-> <<>>,
          wikitext |-> [text |-> TRUE, found |-> TRUE,
                        params |-> << <<"name", "Custom Otto">> >>]]
    ELSE [title |-> title, html_text |-> TRUE, infobox |-> NoInfobox,
          tables |-> <<OtherTable>>,
          wikitext |-> [text |-> TRUE, found |-> FALSE, params |-> <<>>]]

\* what a requests.get of the script can end in: "ok" is an answer with the
\* data asked for, "error" an answer without it, "RequestException" a timeout,
\* a refused connection or an HTTP error status.  A network that is down
\* fails every request.
Outcomes(network) ==
    IF network = "down" THEN {"RequestException"}
    ELSE {"ok", "error", "RequestException"}

\* request_count is only printed: it is counted up to MaxRequestCount
CountRequest(request_count) ==
    IF request_count < MaxRequestCount THEN request_count + 1 ELSE request_count

\* the members of a list
Range(seq) == {seq[k] : k \in 1..Len(seq)}

\* list(set(pages)): the titles once each, in the order the set gives them
Orders(titles) ==
    {order \in [1..Cardinality(titles) -> titles] :
        \A j, k \in 1..Cardinality(titles) : order[j] = order[k] => j = k}

\* one pass of the `while True` of get_all_pages: the run after the request
\* for the next batch has ended in outcome
AllPagesPass(r, outcome) ==
    IF outcome = "RequestException"
    THEN [r EXCEPT !.request_count = CountRequest(@)]
    ELSE IF outcome = "error"
    THEN [r EXCEPT !.request_count = CountRequest(@), !.stage = "categories",
                   !.category = 1]
    ELSE LET batch == IF r.continue_token = 0 THEN 1 ELSE r.continue_token
         IN  IF batch < Len(AllPagesBatches)
             THEN [r EXCEPT !.request_count = CountRequest(@),
                            !.all_pages = @ \o AllPagesBatches[batch],
                            !.continue_token = batch + 1]
             ELSE [r EXCEPT !.request_count = CountRequest(@),
                            !.all_pages = @ \o AllPagesBatches[batch],
                            !.stage = "categories", !.category = 1]

\* the request of get_pages_from_categories for one category: any failure
\* skips the category
CategoryPass(r, outcome) ==
    [r EXCEPT !.category_pages =
                  IF outcome = "ok" THEN @ \o CategoryMembers(categories[r.category])
                  ELSE @]

\* the failed fetch is not counted
PageFailedUncounted(r) == r

\* `else: errors += 1`: get_page_content returned None
PageFailed(r) == [r EXCEPT !.errors = @ + 1]

\* `if page_data:` the body of the loop for a fetched page; the title of the
\* page replaces the title asked for
PageFetched(r, page) ==
    LET infobox  == extract_infobox_data(page)
        versions == IF page.html_text THEN extract_versions_table(page.tables)
                    ELSE <<>>
        models   == PageModels(page.title, infobox.infobox_data, versions)
    IN  IF versions # <<>>
        THEN [r EXCEPT !.models = @ \o models, !.processed = @ + Len(versions)]
        ELSE IF infobox.infobox_data # EmptyMap
        THEN [r EXCEPT !.models = @ \o models, !.processed = @ + 1]
        ELSE [r EXCEPT !.models = @ \o models, !.errors = @ + 1]

\* save_models every SaveInterval pages
SaveInterval == 100

\* one pass of the loop over all_pages, and the final save after the last
PagePass(r, outcome) ==
    LET done == IF outcome = "ok" THEN PageFetched(r, WikiPage(r.all_pages[r.i + 1]))
                ELSE PageFailed(r)
        last == r.i + 1 = Len(r.all_pages)
    IN  [done EXCEPT !.i = @ + 1,
                     !.fetched = Append(@, outcome = "ok"),
                     !.saved = IF last \/ (r.i + 1) % SaveInterval = 0
                               THEN done.models ELSE @,
                     !.stage = IF last THEN "saved" ELSE "pages"]

\* ------------------------------------------------------------------------
\* main.py: POST /collection
\* ------------------------------------------------------------------------
\* select(Variant).where(Variant.id == request.variant_id).first() is not None
VariantExists(variantsT, variant_id) ==
    \E k \in 1..Len(variantsT) : variantsT[k].id = variant_id

\* the rows select(UserCollection).where(UserCollection.variant_id ==
\* request.variant_id) finds; first() gives one of them, the query has no
\* ORDER BY
ExistingItems(items, variant_id) ==
    {k \in 1..Len(items) : items[k].variant_id = variant_id}

\* db.commit() raises IntegrityError: the table declares a primary key and
\* the foreign key variant_id -> variants.id, and no other constraint
IntegrityError(variantsT, items, variant_id) ==
    ~VariantExists(variantsT, variant_id)

\* the answer with a collection item
ItemResponse(item) == [status |-> 200, id |-> item.id]

\* HTTPException(status_code)
ErrorResponse(status_code) == [status |-> status_code, id |-> 0]

\* the tables POST /collection is called on: those an import leaves
ImportedTables ==
    {[cars     |-> prep.cars_to_insert,
      variants |-> InsertBatches(<<>>, [k \in 1..Len(prep.variants_to_insert) |->
                                           prep.variants_to_insert[k].row])] :
        prep \in {Prepared(models, <<>>, <<>>, FALSE) : models \in FilesOfLength(1)}}

\* ------------------------------------------------------------------------
\* incremental_update.py
\* ------------------------------------------------------------------------
\* the entries of data that load_existing_data files under page_title
ModelsOfPage(data, page_title) ==
    SelectSeq(data, LAMBDA model : model.page_title = S(page_title))

\* the keys of by_page_title, in the order of insertion: entries without a
\* page_title are passed over
RECURSIVE load_existing_data(_, _)
load_existing_data(data, seen) ==
    IF data = <<>> THEN <<>>
    ELSE IF ~Truthy(Head(data).page_title) \/ Str(Head(data).page_title) \in seen
    THEN load_existing_data(Tail(data), seen)
    ELSE <<Str(Head(data).page_title)>>
         \o load_existing_data(Tail(data), seen \cup {Str(Head(data).page_title)})

\* more than one distinct toy_number among the entries of a page
has_versions_extracted(models) ==
    Cardinality({models[k].toy_number : k \in {j \in 1..Len(models) :
                                                  Truthy(models[j].toy_number)}}) > 1

\* base_model.copy() overridden with a version of the table
UpdatedVersionModel(base_model, version) ==
    [base_model EXCEPT
        !.toy_number   = version.toy_number,
        !.release_year = Or(version.year, base_model.release_year),
        !.series_name  = Or(version.series, base_model.series_name),
        !.body_color   = Or(version.body_color, base_model.body_color)]

\* next((m for m in existing_models if m.get('toy_number') == toy_number))
FirstWithToyNumber(existing_models, toy_number) ==
    existing_models[CHOOSE k \in 1..Len(existing_models) :
                       /\ existing_models[k].toy_number = toy_number
                       /\ \A j \in 1..(k - 1) :
                              existing_models[j].toy_number # toy_number]

\* the loop over the versions of the table: updated_models holds, for each
\* version with a toy_number, the existing entry of that toy_number or a new
\* one, and nothing else
RECURSIVE UpdatedModels(_, _, _)
UpdatedModels(versions, existing_models, base_model) ==
    IF versions = <<>> THEN <<>>
    ELSE (IF ~Truthy(Head(versions).toy_number) THEN <<>>
          ELSE IF \E k \in 1..Len(existing_models) :
                      /\ Truthy(existing_models[k].toy_number)
                      /\ existing_models[k].toy_number = Head(versions).toy_number
          THEN <<FirstWithToyNumber(existing_models, Head(versions).toy_number)>>
          ELSE <<UpdatedVersionModel(base_model, Head(versions))>>)
         \o UpdatedModels(Tail(versions), existing_models, base_model)

\* fetched is whether get_page_content returned the page
update_page_with_versions(fetched, page, page_title, existing_models) ==
    IF ~fetched THEN existing_models
    ELSE IF ~page.html_text \/ extract_versions_table(page.tables) = <<>>
    THEN existing_models
    ELSE UpdatedModels(extract_versions_table(page.tables), existing_models,
                       normalize_model_data(extract_infobox_data(page).infobox_data,
                                            page_title))

\* `[:100]  # Limit dla testu`
UpdateLimit == 100

FirstPages(pages) ==
    SubSeq(pages, 1, IF Len(pages) < UpdateLimit THEN Len(pages) ELSE UpdateLimit)

\* the pages of the order that have no versions yet
WithoutVersions(order, data) ==
    SelectSeq(FirstPages(order),
              LAMBDA page_title : ~has_versions_extracted(ModelsOfPage(data, page_title)))

\* the entries of the pages that were not updated, page by page
RECURSIVE NotUpdated(_, _, _)
NotUpdated(titles, data, updated) ==
    IF titles = <<>> THEN <<>>
    ELSE (IF Head(titles) \in updated THEN <<>> ELSE ModelsOfPage(data, Head(titles)))
         \o NotUpdated(Tail(titles), data, updated)

\* the existing JSON files, one of their entries without a page_title
UpdateFiles ==
    UNION {{Append(f, m) : f \in FilesOfLength(n - 1),
                           m \in ModelPool \cup
                                 {JsonModel(S("Dodge A100"), None, S("HYW54"), None,
                                            None, None, None, None, None, <<>>)}} :
           n \in 1..MaxModels}

\* what the wiki holds for "Dodge A100" when the update runs
UpdatePages ==
    {[WikiPage("Dodge A100") EXCEPT !.tables = tables] :
        tables \in {<<>>, <<OtherTable>>, WikiPage("Dodge A100").tables,
                    << <<ShortHeader, <<"JBK12", "2026", "Mainline", "Blue">>>> >>}}

\* what get_all_pages returned
ListedPages == {<<>>, <<"Dodge A100">>, <<"Dodge A100", "ID R", "Bone Shaker">>}

\* ------------------------------------------------------------------------
\* State
\* ------------------------------------------------------------------------
\* cars, variants: the two tables, rows in insertion order
\* ident: the /identify request being answered and what the handler did;
\*        scores holds the score the matcher gave each candidate, in order
\* imp:   the import run and what it handed to the bulk inserts
\* call:  one call of a field normalizer: the function, its argument and the
\*        tuple of values it returned
\* dl:    one run of download_hotwheels.py on a wiki page: the page, what the
\*        extractors returned and the models it saved
\* run:   download_all_models against the wiki over a network: the page list
\*        it fetches, its place in the loop over the pages and its tallies
\* coll:  the user_collection table and the POST /collection requests in
\*        progress, each at one of its database statements
\* upd:   one run of incremental_update.py: the JSON file it loads, the
\*        pages it fetches again and the file it writes
VARIABLES cars, variants, ident, imp, call, dl, run, coll, upd

vars == <<cars, variants, ident, imp, call, dl, run, coll, upd>>

NoIdentify ==
    [active |-> FALSE, code |-> None, year |-> None, series |-> None, color |-> None,
     series_number |-> None, code_normalized |-> "", found |-> <<>>,
     branch |-> "", series_position |-> None, series_total |-> None,
     best_match |-> NoMatch, scores |-> <<>>, resp |-> [status |-> 0, car |-> NoCar]]

\* file and runs are those of a series of runs on one JSON file
NoImport ==
    [active |-> FALSE, dry_run |-> FALSE,
     cars_to_insert |-> <<>>, variants_to_insert |-> <<>>, file |-> <<>>, runs |-> 0]

NoCall == [fn |-> "", arg |-> None, out |-> <<>>]

NoDownload ==
    [stage |-> "", page |-> NoPage, infobox_data |-> EmptyMap, strategies |-> <<>>,
     versions |-> <<>>, models |-> <<>>]

\* continue_token 0 is None; fetched[k] tells whether get_page_content
\* returned the k-th page of the loop; saved is what save_models wrote last
NoRun ==
    [stage |-> "", network |-> "", expected_pages |-> 0, all_pages |-> <<>>,
     continue_token |-> 0, request_count |-> 0, category |-> 0,
     category_pages |-> <<>>, i |-> 0, models |-> <<>>, processed |-> 0,
     errors |-> 0, fetched |-> <<>>, saved |-> <<>>]

\* a POST /collection request: pc is the statement it has reached,
\* collection_item the id of the row it added, resp what it answered
NoRequest == [pc |-> "", variant_id |-> 0, collection_item |-> 0,
              resp |-> [status |-> 0, id |-> 0]]

NoCollection == [items |-> <<>>, requests |-> <<>>]

\* data is the JSON file before the run, page what the wiki holds for
\* "Dodge A100", i the pages of pages_without_versions that were passed,
\* output the file the run wrote
NoUpdate ==
    [stage |-> "", dry_run |-> FALSE, data |-> <<>>, page |-> NoPage,
     all_pages |-> <<>>, pages_without_versions |-> <<>>, i |-> 0,
     updated_models |-> <<>>, output |-> <<>>]

Init ==
    /\ cars = <<>>
    /\ variants = <<>>
    /\ ident = NoIdentify
    /\ imp = NoImport
    /\ call = NoCall
    /\ dl = NoDownload
    /\ run = NoRun
    /\ coll = NoCollection
    /\ upd = NoUpdate

Idle == ~ident.active /\ ~imp.active

\* one run of import_hotwheels.py on a JSON file (prep and rows are bound by
\* \E over a singleton so that each is computed once)
ImportData(models, dry_run) ==
    /\ Idle
    /\ \E prep \in {Prepared(models, cars, variants, dry_run)} :
       \E rows \in {[k \in 1..Len(prep.variants_to_insert) |->
                        prep.variants_to_insert[k].row]} :
          /\ Len(variants) + Len(rows) <= MaxVariants
          /\ cars' = IF dry_run THEN cars ELSE cars \o prep.cars_to_insert
          /\ variants' = IF dry_run THEN variants ELSE InsertBatches(variants, rows)
          /\ imp' = [active |-> TRUE, dry_run |-> dry_run,
                     cars_to_insert |-> prep.cars_to_insert,
                     variants_to_insert |-> prep.variants_to_insert,
                     file |-> <<>>, runs |-> 0]
    /\ UNCHANGED <<ident, call, dl, run, coll, upd>>

\* one GET /identify/{code}
Identify(code, year, series, color, series_number) ==
    /\ Idle
    /\ \E found \in {SelectByToyNumber(variants, CodeNormalized(code))} :
       \E r \in {identify_car(cars, variants, found, year, series, color,
                              series_number)} :
          ident' = [active |-> TRUE, code |-> code, year |-> year,
                    series |-> series, color |-> color,
                    series_number |-> series_number,
                    code_normalized |-> CodeNormalized(code), found |-> found,
                    branch |-> r.branch, series_position |-> r.series_position,
                    series_total |-> r.series_total, best_match |-> r.best_match,
                    scores |-> r.scores, resp |-> r.resp]
    /\ UNCHANGED <<cars, variants, imp, call, dl, run, coll, upd>>

\* the response is delivered, the script has ended
Return ==
    /\ ~Idle
    /\ ident' = NoIdentify
    /\ imp' = NoImport
    /\ UNCHANGED <<cars, variants, call, dl, run, coll, upd>>

Next ==
    \/ \E models \in ImportFiles, dry_run \in BOOLEAN : ImportData(models, dry_run)
    \/ \E code \in CodePool, year \in YearPool, series \in SeriesPool,
          color \in ColorPool, series_number \in SeriesNumberPool :
          Identify(code, year, series, color, series_number)
    \/ Return

Spec == Init /\ [][Next]_vars

\* ------------------------------------------------------------------------
\* The field normalizers, each called once with an argument
\* ------------------------------------------------------------------------
NormalizerInit ==
    /\ cars = <<>>
    /\ variants = <<>>
    /\ ident = NoIdentify
    /\ imp = NoImport
    /\ \E arg \in NormalizerArguments : call = [NoCall EXCEPT !.arg = arg]
    /\ dl = NoDownload
    /\ run = NoRun
    /\ coll = NoCollection
    /\ upd = NoUpdate

\* fn is called with the argument and returns out
Called(fn, out) ==
    /\ call.fn = ""
    /\ call' = [call EXCEPT !.fn = fn, !.out = out]
    /\ UNCHANGED <<cars, variants, ident, imp, dl, run, coll, upd>>

\* main.py
NormalizeToyNumber == Called("normalize_toy_number", <<normalize_toy_number(call.arg)>>)

\* import_hotwheels.py
ImportNormalizeToyNumber ==
    Called("import.normalize_toy_number", <<imp_normalize_toy_number(call.arg)>>)

ParseReleaseYear == Called("parse_release_year", <<parse_release_year(call.arg)>>)

\* series_name is Optional[str]
CleanSeriesName ==
    /\ call.arg.t # "int"
    /\ Called("clean_series_name", <<clean_series_name(call.arg)>>)

ParseSeriesNumber == Called("parse_series_number", parse_series_number(call.arg))

NormalizerNext ==
    \/ NormalizeToyNumber
    \/ ImportNormalizeToyNumber
    \/ ParseReleaseYear
    \/ CleanSeriesName
    \/ ParseSeriesNumber

NormalizerSpec == NormalizerInit /\ [][NormalizerNext]_vars

\* ------------------------------------------------------------------------
\* The pipeline: one page is downloaded, then imported into the empty tables
\* ------------------------------------------------------------------------
DownloadInit ==
    /\ cars = <<>>
    /\ variants = <<>>
    /\ ident = NoIdentify
    /\ imp = NoImport
    /\ call = NoCall
    /\ \E page \in Pages : dl = [NoDownload EXCEPT !.stage = "fetched", !.page = page]
    /\ run = NoRun
    /\ coll = NoCollection
    /\ upd = NoUpdate

\* one pass of the loop of download_all_models and the save of its models
DownloadPage ==
    /\ dl.stage = "fetched"
    /\ \E infobox \in {extract_infobox_data(dl.page)} :
       \E versions \in {IF dl.page.html_text
                        THEN extract_versions_table(dl.page.tables) ELSE <<>>} :
          dl' = [dl EXCEPT !.stage = "saved",
                           !.infobox_data = infobox.infobox_data,
                           !.strategies = infobox.strategies,
                           !.versions = versions,
                           !.models = PageModels(dl.page.title, infobox.infobox_data,
                                                 versions)]
    /\ UNCHANGED <<cars, variants, ident, imp, call, run, coll, upd>>

\* import_hotwheels.py run on the saved file
ImportDownloaded ==
    /\ dl.stage = "saved"
    /\ \E prep \in {Prepared(dl.models, cars, variants, FALSE)} :
       \E rows \in {[k \in 1..Len(prep.variants_to_insert) |->
                        prep.variants_to_insert[k].row]} :
          /\ cars' = cars \o prep.cars_to_insert
          /\ variants' = InsertBatches(variants, rows)
          /\ imp' = [active |-> TRUE, dry_run |-> FALSE,
                     cars_to_insert |-> prep.cars_to_insert,
                     variants_to_insert |-> prep.variants_to_insert,
                     file |-> <<>>, runs |-> 0]
    /\ dl' = [dl EXCEPT !.stage = "imported"]
    /\ UNCHANGED <<ident, call, run, coll, upd>>

DownloadNext ==
    \/ DownloadPage
    \/ ImportDownloaded

DownloadSpec == DownloadInit /\ [][DownloadNext]_vars

\* ------------------------------------------------------------------------
\* The download run: the page list is fetched, then every page
\* ------------------------------------------------------------------------
FetchInit ==
    /\ cars = <<>>
    /\ variants = <<>>
    /\ ident = NoIdentify
    /\ imp = NoImport
    /\ call = NoCall
    /\ dl = NoDownload
    /\ \E network \in {"down", "flaky"} :
          run = [NoRun EXCEPT !.stage = "statistics", !.network = network]
    /\ coll = NoCollection
    /\ upd = NoUpdate

\* get_wiki_statistics: one request, any failure gives {}
GetWikiStatistics(outcome) ==
    /\ run.stage = "statistics"
    /\ run' = [run EXCEPT !.stage = "allpages",
                          !.expected_pages = IF outcome = "ok" THEN WikiArticles ELSE 0]
    /\ UNCHANGED <<cars, variants, ident, imp, call, dl, coll, upd>>

\* one request of get_all_pages for list=allpages
AllPagesRequest(outcome) ==
    /\ run.stage = "allpages"
    /\ run' = AllPagesPass(run, outcome)
    /\ UNCHANGED <<cars, variants, ident, imp, call, dl, coll, upd>>

\* one request of get_pages_from_categories; after the last category
\* get_all_pages returns list(set(all_pages)) and download_all_models starts
\* its loop, or ends when there is no page
CategoryRequest(outcome) ==
    /\ run.stage = "categories"
    /\ \E r \in {CategoryPass(run, outcome)} :
          IF run.category < Len(categories)
          THEN run' = [r EXCEPT !.category = @ + 1]
          ELSE \E order \in Orders(Range(r.all_pages) \cup Range(r.category_pages)) :
                  run' = [r EXCEPT !.all_pages = order,
                                   !.stage = IF order = <<>> THEN "no_pages"
                                             ELSE "pages"]
    /\ UNCHANGED <<cars, variants, ident, imp, call, dl, coll, upd>>

\* one pass of the loop of download_all_models: get_page_content and what is
\* made of its result
ProcessPage(outcome) ==
    /\ run.stage = "pages"
    /\ run' = PagePass(run, outcome)
    /\ UNCHANGED <<cars, variants, ident, imp, call, dl, coll, upd>>

FetchNext ==
    \/ \E outcome \in Outcomes(run.network) : GetWikiStatistics(outcome)
    \/ \E outcome \in Outcomes(run.network) : AllPagesRequest(outcome)
    \/ \E outcome \in Outcomes(run.network) : CategoryRequest(outcome)
    \/ \E outcome \in Outcomes(run.network) : ProcessPage(outcome)

FetchSpec == FetchInit /\ [][FetchNext]_vars

\* the script runs on: a step that can be taken is taken
FetchFairSpec == FetchSpec /\ WF_vars(FetchNext)

\* ------------------------------------------------------------------------
\* The collection: POST /collection requests, statement by statement
\* ------------------------------------------------------------------------
CollectionInit ==
    /\ \E tables \in ImportedTables : cars = tables.cars /\ variants = tables.variants
    /\ ident = NoIdentify
    /\ imp = NoImport
    /\ call = NoCall
    /\ dl = NoDownload
    /\ run = NoRun
    /\ coll = [items |-> <<>>, requests |-> [c \in 1..MaxRequests |-> NoRequest]]
    /\ upd = NoUpdate

\* the request arrives and the handler validates the variant
AddToCollection(c, variant_id) ==
    /\ coll.requests[c].pc = ""
    /\ coll' = [coll EXCEPT !.requests[c] =
                   IF VariantExists(variants, variant_id)
                   THEN [@ EXCEPT !.pc = "validated", !.variant_id = variant_id]
                   ELSE [@ EXCEPT !.pc = "done", !.variant_id = variant_id,
                                  !.resp = ErrorResponse(404)]]
    /\ UNCHANGED <<cars, variants, ident, imp, call, dl, run, upd>>

\* db.exec(existing_collection).first(): the existing item is returned, or
\* the new one is added to the session
SelectExisting(c) ==
    /\ coll.requests[c].pc = "validated"
    /\ IF ExistingItems(coll.items, coll.requests[c].variant_id) # {}
       THEN \E k \in ExistingItems(coll.items, coll.requests[c].variant_id) :
               coll' = [coll EXCEPT !.requests[c].pc = "done",
                                    !.requests[c].resp = ItemResponse(coll.items[k])]
       ELSE coll' = [coll EXCEPT !.requests[c].pc = "added"]
    /\ UNCHANGED <<cars, variants, ident, imp, call, dl, run, upd>>

\* db.commit(), and the except clause when it raises; uuid4() is the next
\* free number
Commit(c) ==
    /\ coll.requests[c].pc = "added"
    /\ IF IntegrityError(variants, coll.items, coll.requests[c].variant_id)
       THEN IF ExistingItems(coll.items, coll.requests[c].variant_id) # {}
            THEN \E k \in ExistingItems(coll.items, coll.requests[c].variant_id) :
                    coll' = [coll EXCEPT !.requests[c].pc = "done",
                                         !.requests[c].resp =
                                             ItemResponse(coll.items[k])]
            ELSE coll' = [coll EXCEPT !.requests[c].pc = "done",
                                      !.requests[c].resp = ErrorResponse(500)]
       ELSE coll' = [coll EXCEPT
                        !.items = Append(@, [id |-> Len(coll.items) + 1,
                                             variant_id |-> coll.requests[c].variant_id]),
                        !.requests[c].pc = "committed",
                        !.requests[c].collection_item = Len(coll.items) + 1]
    /\ UNCHANGED <<cars, variants, ident, imp, call, dl, run, upd>>

\* the created item is loaded and returned
LoadCreated(c) ==
    /\ coll.requests[c].pc = "committed"
    /\ LET created == {k \in 1..Len(coll.items) :
                          coll.items[k].id = coll.requests[c].collection_item}
       IN  IF created = {} \/ ~VariantExists(variants, coll.requests[c].variant_id)
           THEN coll' = [coll EXCEPT !.requests[c].pc = "done",
                                     !.requests[c].resp = ErrorResponse(500)]
           ELSE \E k \in created :
                   coll' = [coll EXCEPT !.requests[c].pc = "done",
                                        !.requests[c].resp = ItemResponse(coll.items[k])]
    /\ UNCHANGED <<cars, variants, ident, imp, call, dl, run, upd>>

CollectionNext ==
    \/ \E c \in 1..MaxRequests, variant_id \in 1..MaxVariants + 1 :
          AddToCollection(c, variant_id)
    \/ \E c \in 1..MaxRequests : SelectExisting(c)
    \/ \E c \in 1..MaxRequests : Commit(c)
    \/ \E c \in 1..MaxRequests : LoadCreated(c)

CollectionSpec == CollectionInit /\ [][CollectionNext]_vars

\* ------------------------------------------------------------------------
\* The import run again on the same JSON file
\* ------------------------------------------------------------------------
ReimportInit ==
    /\ cars = <<>>
    /\ variants = <<>>
    /\ ident = NoIdentify
    /\ \E models \in ImportFiles : imp = [NoImport EXCEPT !.file = models]
    /\ call = NoCall
    /\ dl = NoDownload
    /\ run = NoRun
    /\ coll = NoCollection
    /\ upd = NoUpdate

\* one run of import_hotwheels.py on the file, after the runs before it
Reimport ==
    /\ imp.runs < MaxRuns
    /\ \E prep \in {Prepared(imp.file, cars, variants, FALSE)} :
       \E rows \in {[k \in 1..Len(prep.variants_to_insert) |->
                        prep.variants_to_insert[k].row]} :
          /\ cars' = cars \o prep.cars_to_insert
          /\ variants' = InsertBatches(variants, rows)
          /\ imp' = [imp EXCEPT !.active = TRUE, !.runs = @ + 1,
                                !.cars_to_insert = prep.cars_to_insert,
                                !.variants_to_insert = prep.variants_to_insert]
    /\ UNCHANGED <<ident, call, dl, run, coll, upd>>

ReimportNext == Reimport

ReimportSpec == ReimportInit /\ [][ReimportNext]_vars

\* ------------------------------------------------------------------------
\* incremental_update.py run on an existing JSON file
\* ------------------------------------------------------------------------
UpdateInit ==
    /\ cars = <<>>
    /\ variants = <<>>
    /\ ident = NoIdentify
    /\ imp = NoImport
    /\ call = NoCall
    /\ dl = NoDownload
    /\ run = NoRun
    /\ coll = NoCollection
    /\ \E data \in UpdateFiles, page \in UpdatePages, dry_run \in BOOLEAN :
          upd = [NoUpdate EXCEPT !.stage = "start", !.data = data, !.page = page,
                                 !.dry_run = dry_run]

\* load_existing_data, get_all_pages and the loop that collects
\* pages_without_versions
ListPages(all_pages) ==
    /\ upd.stage = "start"
    /\ \E order \in Orders(Range(load_existing_data(upd.data, {})) \cap Range(all_pages)) :
          upd' = [upd EXCEPT !.stage = "update", !.all_pages = all_pages,
                             !.pages_without_versions = WithoutVersions(order, upd.data)]
    /\ UNCHANGED <<cars, variants, ident, imp, call, dl, run, coll>>

\* action=parse of a title when the update runs
PageOfWiki(page_title) ==
    IF page_title = "Dodge A100" THEN upd.page ELSE WikiPage(page_title)

\* one pass of the loop over pages_without_versions[:100]; a dry run reads
\* .get of what get_page_content returned and ends on None
UpdatePage(fetched) ==
    /\ upd.stage = "update"
    /\ upd.i < Len(FirstPages(upd.pages_without_versions))
    /\ \E page_title \in {upd.pages_without_versions[upd.i + 1]} :
          upd' = IF upd.dry_run
                 THEN [upd EXCEPT !.i = @ + 1,
                                  !.stage = IF fetched THEN @ ELSE "AttributeError"]
                 ELSE [upd EXCEPT !.i = @ + 1,
                                  !.updated_models = @ \o
                                      update_page_with_versions(
                                          fetched, PageOfWiki(page_title), page_title,
                                          ModelsOfPage(upd.data, page_title))]
    /\ UNCHANGED <<cars, variants, ident, imp, call, dl, run, coll>>

\* the pages that were not updated are added and the file is written
WriteOutput ==
    /\ upd.stage = "update"
    /\ upd.i = Len(FirstPages(upd.pages_without_versions))
    /\ upd' = IF upd.dry_run THEN [upd EXCEPT !.stage = "summary"]
              ELSE [upd EXCEPT !.stage = "written",
                               !.output = upd.updated_models \o
                                   NotUpdated(load_existing_data(upd.data, {}), upd.data,
                                              Range(FirstPages(upd.pages_without_versions)))]
    /\ UNCHANGED <<cars, variants, ident, imp, call, dl, run, coll>>

UpdateNext ==
    \/ \E all_pages \in ListedPages : ListPages(all_pages)
    \/ \E fetched \in BOOLEAN : UpdatePage(fetched)
    \/ WriteOutput

UpdateSpec == UpdateInit /\ [][UpdateNext]_vars

\* ------------------------------------------------------------------------
\* Properties of GET /identify/{code}
\* ------------------------------------------------------------------------
\* the score the matcher gave the k-th candidate of the request
CandidateScore(k) == ident.scores[k]

Candidates == 1..Len(ident.found)

\* the scores of the candidates, in their order
Scores == ident.scores

MaxOf(scores) == SetMax({scores[k] : k \in DOMAIN scores})

MaxScore == MaxOf(Scores)

\* the request found two candidates or more
Scored == ident.active /\ Len(ident.found) >= 2

\* C1: with two or more candidates the handler answers with the car of a
\* maximum-scoring candidate as a confident match exactly when the maximum
\* score is strictly above 0.80; a maximum of exactly 0.80 is not confident.
C1_ConfidentIffAboveThreshold ==
    Scored =>
        LET scores == Scores
        IN  /\ (ident.branch = "confident") <=> (MaxOf(scores) > 800)
            /\ (ident.branch = "confident") =>
                   /\ ident.resp.status = 200
                   /\ \E k \in Candidates :
                          /\ scores[k] = MaxOf(scores)
                          /\ ident.resp.car.id = ident.found[k].car_id

\* a request whose best candidate matches year, series and series number and
\* nothing else: 0.30 + 0.25 + 0.25
C1_Witness ==
    /\ Scored
    /\ MaxScore = 800
    /\ \E k \in Candidates :
           /\ YearMatches(ident.found[k], ident.year)
           /\ SeriesMatches(ident.found[k], ident.series)
           /\ SeriesNumberMatches(ident.found[k], ident.series_position,
                                  ident.series_total)
           /\ ColorWeight(ident.found[k], ident.color) = 0
    /\ ident.branch = "fallback"
    /\ ident.resp.status = 200

\* the request is answered without a confident match
Ambiguous == Scored /\ MaxScore <= 800

IsWideBody(v) ==
    /\ v.release_year = I(2025)
    /\ v.series_name = S("Wild Widebody")
    /\ v.body_color = S("Chrome")
    /\ v.series_position = I(5)
    /\ v.series_total = I(5)

\* the candidate (2010) of the example
Is2010(v) ==
    /\ v.release_year = I(2010)
    /\ v.series_name = None
    /\ v.body_color = None
    /\ v.series_position = None

\* the request of the example: the two candidates, and the query
\* {2025, "Wild Widebody", "Chrome"}
ExampleQuery ==
    /\ ident.active
    /\ Len(ident.found) = 2
    /\ \E k \in 1..2 : IsWideBody(ident.found[k]) /\ Is2010(ident.found[3 - k])
    /\ ident.year = I(2025)
    /\ ident.series = S("Wild Widebody")
    /\ ident.color = S("Chrome")

C4_WinnerIsFirstMaximum ==
    Scored =>
        LET scores == Scores
        IN  /\ ident.best_match.found
            /\ ident.best_match.index \in Candidates
            /\ scores[ident.best_match.index] = MaxOf(scores)
            /\ \A j \in Candidates :
                   j < ident.best_match.index => scores[j] < MaxOf(scores)

\* C4: when some candidate scores above 0 the winner is the first candidate,
\* in input order, that has the maximum score; when every candidate scores 0
\* there is no winner.
C4_WinnerIsFirstPositiveMaximum ==
    Scored =>
        LET scores == Scores
        IN  IF MaxOf(scores) > 0
            THEN /\ ident.best_match.found
                 /\ ident.best_match.index \in Candidates
                 /\ ident.best_match.score = MaxOf(scores)
                 /\ scores[ident.best_match.index] = MaxOf(scores)
                 /\ \A j \in Candidates :
                        j < ident.best_match.index => scores[j] < MaxOf(scores)
            ELSE ~ident.best_match.found

\* two candidates share the maximum score and the earlier one wins
C4_Witness ==
    /\ Scored
    /\ LET scores == Scores
       IN  /\ MaxOf(scores) > 0
           /\ \E j, k \in Candidates :
                  /\ j < k
                  /\ scores[j] = MaxOf(scores)
                  /\ scores[k] = MaxOf(scores)
                  /\ ident.best_match.index = j

\* the stored variants whose toy_number is the normalized code
StoredWithCode(code_normalized) ==
    {k \in 1..Len(variants) : variants[k].toy_number = S(code_normalized)}

\* C5: a request whose code matches no stored variant is answered 404 Not
\* Found whatever the year, series, color and series_number of the query,
\* and the request changes no stored data.
C5_NotFoundChangesNothing ==
    [][(~ident.active /\ ident'.active /\ StoredWithCode(ident'.code_normalized) = {})
          => /\ ident'.resp.status = 404
             /\ ident'.branch = "not_found"
             /\ cars' = cars
             /\ variants' = variants]_vars

\* a 404 with optional values in the query and variants in the table, one of
\* them with the code before it is cut at "-"
C5_Witness ==
    /\ ident.active
    /\ ident.resp.status = 404
    /\ StoredWithCode(ident.code_normalized) = {}
    /\ ident.year # None /\ ident.series # None
    /\ ident.color # None /\ ident.series_number # None
    /\ \E k \in 1..Len(variants) : variants[k].toy_number = S("AB-1")

\* C6: a request whose normalized code matches exactly one stored variant is
\* answered with the record of that variant's car whatever the query holds;
\* no score is computed.
C6_OnlyCandidate ==
    (ident.active /\ Cardinality(StoredWithCode(ident.code_normalized)) = 1) =>
        \A k \in StoredWithCode(ident.code_normalized) :
            /\ ident.branch = "only_one"
            /\ ident.best_match = NoMatch
            /\ ident.scores = <<>>
            /\ ident.resp.status = 200
            /\ ident.resp.car.id = variants[k].car_id
            /\ \E j \in 1..Len(ident.resp.car.variants) :
                   ident.resp.car.variants[j] = variants[k]

\* the only candidate differs from the query in every feature
C6_Witness ==
    /\ ident.active
    /\ Cardinality(StoredWithCode(ident.code_normalized)) = 1
    /\ ident.year # None /\ ident.series # None
    /\ ident.color # None /\ ident.series_number # None
    /\ VariantScore(ident.found[1], ident.year, ident.series, ident.color,
                    parse_series_number(ident.series_number)[1],
                    parse_series_number(ident.series_number)[2]).score = 0
    /\ ident.resp.status = 200
    /\ ident.resp.car.id = ident.found[1].car_id

\* ------------------------------------------------------------------------
\* Properties of import_data
\* ------------------------------------------------------------------------
\* the mappings the run handed to bulk_insert_mappings
HandedRows ==
    {imp.variants_to_insert[k].row : k \in 1..Len(imp.variants_to_insert)}

StoredRows == {variants[k] : k \in 1..Len(variants)}

\* C7 as stated: series_position and series_total are both present or both
\* absent in every variant the import makes or stores and in the pair the
\* series-number parser returns, also for a fraction such as "1/A".
C7_PositionAndTotalTogether ==
    /\ \A r \in HandedRows \cup StoredRows :
           (r.series_position = None) <=> (r.series_total = None)
    /\ (ident.series_position = None) <=> (ident.series_total = None)
    /\ \A n \in SeriesNumberPool :
           (parse_series_number(n)[1] = None) <=> (parse_series_number(n)[2] = None)

\* re.match(r'^[A-Z0-9]{3,10}$', s)
MatchesCodePattern(s) ==
    /\ Len(s) \in 3..10
    /\ \A i \in 1..Len(s) :
           \/ IsDigit(Char(s, i))
           \/ \E j \in 1..Len(UpperLetters) : Char(UpperLetters, j) = Char(s, i)

\* C8 as stated: every variant the import keeps in the table has a normalized
\* toy_number that matches [A-Z0-9]{3,10}.
C8_KeptToyNumbersMatchPattern ==
    \A r \in StoredRows :
        /\ r.toy_number.t = "str"
        /\ MatchesCodePattern(r.toy_number.s)

\* text is "n/m" with n and m written in decimal digits
IsFractionText(text) ==
    \E k \in 2..(Len(text) - 1) :
        /\ Char(text, k) = "/"
        /\ \A i \in 1..Len(text) : i # k => IsDigit(Char(text, i))

\* the value of a string of decimal digits
RECURSIVE Decimal(_)
Decimal(text) ==
    IF text = "" THEN 0
    ELSE 10 * Decimal(SubSeq(text, 1, Len(text) - 1))
           + (CHOOSE d \in 0..9 : Char("0123456789", d + 1) = Char(text, Len(text)))

\* the n and the m of the fraction "n/m"
Numerator(text) ==
    Decimal(SubSeq(text, 1, (CHOOSE k \in 1..Len(text) : Char(text, k) = "/") - 1))

Denominator(text) ==
    Decimal(SubSeq(text, (CHOOSE k \in 1..Len(text) : Char(text, k) = "/") + 1,
                   Len(text)))

\* C9: a variant whose raw toy_number is a fraction "n/m" is given no
\* toy_number, series_position n and series_total m ("1/10" gives 1 and 10),
\* and no variant made or stored has a toy_number that contains "/".
C9_FractionIsSeriesNumber ==
    /\ \A k \in 1..Len(imp.variants_to_insert) :
           LET raw == imp.variants_to_insert[k].source.toy_number
               row == imp.variants_to_insert[k].row
           IN  (raw.t = "str" /\ IsFractionText(raw.s)) =>
                   /\ row.toy_number = None
                   /\ row.series_position = I(Numerator(raw.s))
                   /\ row.series_total = I(Denominator(raw.s))
    /\ \A r \in HandedRows \cup StoredRows :
           r.toy_number.t = "str" => ~Contains("/", r.toy_number.s)

\* a run that made a variant from the raw toy_number "1/10"
C9_Witness ==
    /\ imp.active
    /\ \E k \in 1..Len(imp.variants_to_insert) :
           /\ imp.variants_to_insert[k].source.toy_number = S("1/10")
           /\ imp.variants_to_insert[k].row.toy_number = None
           /\ imp.variants_to_insert[k].row.series_position = I(1)
           /\ imp.variants_to_insert[k].row.series_total = I(10)

\* C10 as stated: no variant with an empty or absent toy_number is handed to
\* persistence, the variants whose toy_number was a fraction included.
C10_NoEmptyToyNumberHanded ==
    \A r \in HandedRows : Truthy(r.toy_number)

\* ------------------------------------------------------------------------
\* The pipeline from a page to the variants table
\* ------------------------------------------------------------------------
\* the run has downloaded the page and imported its models
Imported == dl.stage = "imported"

\* C11 as stated: for a page whose versions table has N surviving rows, the
\* download followed by the import into the empty tables stores exactly one
\* variant per row, N in all, in the order of the rows.
C11_OneVariantPerRow ==
    (Imported /\ dl.versions # <<>>) =>
        /\ Len(variants) = Len(dl.versions)
        /\ \A k \in 1..Len(dl.versions) :
               k <= Len(variants) => variants[k].toy_number = dl.versions[k].toy_number

\* ------------------------------------------------------------------------
\* The field normalizers
\* ------------------------------------------------------------------------
\* the value the called normalizer of toy numbers gives x
NormalizeCodeBy(fn, x) ==
    IF fn = "normalize_toy_number" THEN normalize_toy_number(x)
    ELSE imp_normalize_toy_number(x)

\* C12 as stated: normalizeCode, in the API and in the import, returns a
\* string for every argument, the empty string for an absent or empty one,
\* and gives its own result back when it is applied to it.
C12_NormalizeCodeTotalIdempotent ==
    call.fn \in {"normalize_toy_number", "import.normalize_toy_number"} =>
        /\ call.out[1].t = "str"
        /\ call.arg \in {None, S("")} => call.out[1] = S("")
        /\ NormalizeCodeBy(call.fn, call.out[1]) = call.out[1]

\* the positions of s where a run of exactly four digits starts
YearRuns(s) ==
    {k \in 1..(Len(s) - 3) :
        /\ \A j \in k..(k + 3) : IsDigit(Char(s, j))
        /\ k > 1 => ~IsDigit(Char(s, k - 1))
        /\ k + 4 <= Len(s) => ~IsDigit(Char(s, k + 4))}

\* s holds " - ", an en dash or " to "
IsRange(s) == Contains(" - ", s) \/ Contains(EnDash, s) \/ Contains(" to ", Lower(s))

\* the direct integer parse of a text, absent when it is no integer
DirectParse(s) == IF IntOk(s) THEN I(IntOf(s)) ELSE None

\* C13 as stated: parseYear returns an integer or absent; an integer passes
\* through; for a text with a range separator it returns the first run of
\* exactly four digits (a longer run is no year); without one it returns the
\* direct integer parse or absent.
C13_FirstRunOfExactlyFourDigits ==
    call.fn = "parse_release_year" =>
        /\ call.out[1].t \in {"none", "int"}
        /\ call.arg.t = "int" => call.out[1] = call.arg
        /\ call.arg = None => call.out[1] = None
        /\ call.arg.t = "str" =>
               LET s == Strip(call.arg.s)
               IN  IF IsRange(s) /\ YearRuns(s) # {}
                   THEN call.out[1] = I(Decimal(SubSeq(s, SetMin(YearRuns(s)),
                                                       SetMin(YearRuns(s)) + 3)))
                   ELSE call.out[1] = DirectParse(s)

\* C14 as stated: cleanSeriesName gives its own result back when it is
\* applied to it, also for a text that ends with several groups of digits
\* separated by blanks.
C14_CleanSeriesNameIdempotent ==
    call.fn = "clean_series_name" =>
        clean_series_name(call.out[1]) = call.out[1]

\* s is a non-empty string of decimal digits
AllDigits(s) == s # "" /\ \A k \in 1..Len(s) : IsDigit(Char(s, k))

\* the positions of s from which s is "<digits>/<digits>" to its end
FractionStarts(s) ==
    {k \in 1..Len(s) :
        \E j \in (k + 1)..(Len(s) - 1) :
            /\ Char(s, j) = "/"
            /\ AllDigits(SubSeq(s, k, j - 1))
            /\ AllDigits(SubSeq(s, j + 1, Len(s)))}

\* s without the "<digits>/<digits>" it ends with
WithoutFraction(s) ==
    IF FractionStarts(s) = {} THEN s ELSE SubSeq(s, 1, SetMin(FractionStarts(s)) - 1)

\* the positions of s from which s is digits to its end
DigitStarts(s) == {k \in 1..Len(s) : AllDigits(SubSeq(s, k, Len(s)))}

\* s without the run of digits it ends with
WithoutDigits(s) ==
    IF DigitStarts(s) = {} THEN s ELSE SubSeq(s, 1, SetMin(DigitStarts(s)) - 1)

\* the series text cleaned as C15 describes it
Cleaned(s) == Strip(WithoutDigits(WithoutFraction(s)))

\* C15: for a non-empty text, cleanSeriesName returns the text without its
\* trailing "<digits>/<digits>", then without its trailing digits, trimmed;
\* when nothing is left it returns the text as it was, so the result is never
\* empty or absent.  "2004 First Editions24/100" gives "2004 First Editions",
\* "Final Run6/12" gives "Final Run" and "4" gives "4".
C15_CleanSeriesNameResult ==
    (call.fn = "clean_series_name" /\ call.arg.t = "str" /\ call.arg.s # "") =>
        /\ call.out[1] = IF Cleaned(call.arg.s) # "" THEN S(Cleaned(call.arg.s))
                         ELSE call.arg
        /\ call.out[1].t = "str" /\ call.out[1].s # ""
        /\ call.arg = S("2004 First Editions24/100")
               => call.out[1] = S("2004 First Editions")
        /\ call.arg = S("Final Run6/12") => call.out[1] = S("Final Run")
        /\ call.arg = S("4") => call.out[1] = S("4")

\* "4" was cleaned: nothing was left of it and it came back as it was
C15_Witness ==
    /\ call.fn = "clean_series_name"
    /\ call.arg = S("4")
    /\ Cleaned(call.arg.s) = ""
    /\ call.out = <<S("4")>>

\* the number of "/" in s
SlashCount(s) == Cardinality({k \in 1..Len(s) : Char(s, k) = "/"})

\* the text before, and the text after, the first "/" of s
BeforeSlash(s) == SubSeq(s, 1, (CHOOSE k \in 1..Len(s) : Char(s, k) = "/") - 1)

AfterSlash(s) == SubSeq(s, (CHOOSE k \in 1..Len(s) : Char(s, k) = "/") + 1, Len(s))

\* C16: parseSeriesFraction returns (position, total) exactly when the text
\* has one "/" and both sides parse as integers, and (absent, absent) for
\* every other argument; it always returns a pair.  "238/250" gives
\* (238, 250) and "abc" gives (absent, absent).
C16_FractionOnlyWithOneSlash ==
    call.fn = "parse_series_number" =>
        /\ Len(call.out) = 2
        /\ IF /\ call.arg.t = "str"
              /\ SlashCount(call.arg.s) = 1
              /\ IntOk(BeforeSlash(call.arg.s))
              /\ IntOk(AfterSlash(call.arg.s))
           THEN call.out = <<I(IntOf(BeforeSlash(call.arg.s))),
                             I(IntOf(AfterSlash(call.arg.s)))>>
           ELSE call.out = <<None, None>>
        /\ call.arg = S("238/250") => call.out = <<I(238), I(250)>>
        /\ call.arg = S("abc") => call.out = <<None, None>>

\* "1/2/3" has integers around its first "/" and was answered with no pair
C16_Witness ==
    /\ call.fn = "parse_series_number"
    /\ call.arg = S("1/2/3")
    /\ call.out = <<None, None>>

\* ------------------------------------------------------------------------
\* The extractors
\* ------------------------------------------------------------------------
\* the page has been through the extractors
Downloaded == dl.stage \in {"saved", "imported"}

\* the versions table of the page
PageTable == IF dl.page.html_text THEN VersionsTable(dl.page.tables) ELSE <<>>

\* the column of the header row the extractor resolved a semantic column
\* to, 0 for none: under the wiki's headers "Toy #", "Year", "Series", ... it
\* is the column the word names; which column is resolved under other
\* headers is the subject of C27 and C30
ResolvedColumn(header, column) == ColumnIndex(header, column)

\* the row has no cell in the toy-number column (column 0: the table has no
\* such column), or an empty one, or "-"
Discarded(row, toy) == toy = 0 \/ toy > Len(row) \/ Strip(row[toy]) \in {"", "-"}

\* the series cell of a row, trimmed; "" when the row has none
SeriesCell(row, series) == IF series <= Len(row) THEN Strip(row[series]) ELSE ""

\* the table as the claims speak of it: its data rows, the columns of the toy
\* number and of the series, and the rows that are not discarded, in order
Layout(header, rows) ==
    [rows      |-> rows,
     toy       |-> ResolvedColumn(header, "toy_num"),
     series    |-> ResolvedColumn(header, "series"),
     surviving |-> SelectSeq(rows, LAMBDA row :
                                       ~Discarded(row, ResolvedColumn(header, "toy_num")))]

\* the layout of the page's versions table, in a set of its own
PageLayout ==
    {Layout(table[HeaderRowIndex(table)], RowsAfterHeader(table)) : table \in {PageTable}}

\* C17: a data row whose toy-number cell is missing, empty or "-" gives no
\* VersionRow: the extractor returns as many rows as the table has data rows
\* less the discarded ones, in their order, each with a non-empty toy_number.
C17_RowsWithoutToyNumberDiscarded ==
    (Downloaded /\ PageTable # <<>>) =>
        \A t \in PageLayout :
            /\ Len(dl.versions) =
                   Len(t.rows)
                   - Cardinality({k \in 1..Len(t.rows) : Discarded(t.rows[k], t.toy)})
            /\ \A k \in 1..Len(dl.versions) :
                   /\ dl.versions[k].toy_number.t = "str"
                   /\ dl.versions[k].toy_number.s # ""
                   /\ k <= Len(t.surviving) =>
                          dl.versions[k].toy_number.s =
                              RemoveChar(Upper(Strip(t.surviving[k][t.toy])), " ")

\* a table of two data rows, the first with the placeholder as its toy
\* number: the second row alone was returned
C17_Witness ==
    /\ Downloaded
    /\ dl.page.tables =
           << <<ShortHeader, <<"-", "2025", "Mainline", "Red">>,
                <<"HYW54", "2025", "Wild Widebody 5/5", "Chrome">> >> >>
    /\ Len(dl.versions) = 1
    /\ dl.versions[1].toy_number = S("HYW54")

\* the columns of a VersionRow other than toy_number, position and total
PlaceholderColumns ==
    {"year", "series", "body_color", "tampo", "wheel_type", "base_color",
     "base_material", "window_color", "interior_color", "collector_number",
     "country", "notes", "photo"}

\* C18 as stated: no column of a VersionRow the extractor returns holds the
\* placeholder "-" or the empty string; such cells are stored as absent.
C18_NoPlaceholderStored ==
    Downloaded =>
        \A k \in 1..Len(dl.versions) : \A column \in PlaceholderColumns :
            dl.versions[k][column] \notin {S("-"), S("")}

\* the "<digits>/<digits>" a text ends with
Fraction(text) == SubSeq(text, SetMin(FractionStarts(text)), Len(text))

\* the VersionRow holds what the series cell says
SeriesStored(version, cell) ==
    FractionStarts(cell) # {} =>
        /\ version.series_position = I(Numerator(Fraction(cell)))
        /\ version.series_total = I(Denominator(Fraction(cell)))
        /\ version.series = S(Strip(WithoutFraction(cell)))

\* C19: when the series cell of a row ends in "<digits>/<digits>", its
\* VersionRow holds the two numbers as series_position and series_total and
\* the series without that suffix.  The table with the header "Toy #", "Year",
\* "Series", "Color" and the row "HYW54", "2025", "Wild Widebody 5/5",
\* "Chrome" gives the one VersionRow HYW54, "2025", "Wild Widebody", 5, 5,
\* "Chrome".
C19_SeriesFractionParsed ==
    (Downloaded /\ PageTable # <<>>) =>
        /\ \A t \in PageLayout :
               \A k \in 1..Len(t.surviving) :
                   k <= Len(dl.versions) =>
                       \A cell \in {SeriesCell(t.surviving[k], t.series)} :
                           SeriesStored(dl.versions[k], cell)
        /\ dl.page.tables =
               << <<ShortHeader, <<"HYW54", "2025", "Wild Widebody 5/5", "Chrome">> >> >>
               => /\ Len(dl.versions) = 1
                  /\ dl.versions[1].toy_number = S("HYW54")
                  /\ dl.versions[1].year = S("2025")
                  /\ dl.versions[1].series = S("Wild Widebody")
                  /\ dl.versions[1].series_position = I(5)
                  /\ dl.versions[1].series_total = I(5)
                  /\ dl.versions[1].body_color = S("Chrome")

\* the table of the example went through the extractor
C19_Witness ==
    /\ Downloaded
    /\ dl.page.tables =
           << <<ShortHeader, <<"HYW54", "2025", "Wild Widebody 5/5", "Chrome">> >> >>
    /\ Len(dl.versions) = 1
    /\ dl.versions[1].series = S("Wild Widebody")
    /\ dl.versions[1].series_position = I(5)

\* what the HTML strategies, and the template markup, yield for the page
HtmlMap ==
    IF dl.page.html_text THEN extract_from_html_infobox(dl.page.infobox) ELSE EmptyMap

TemplateMap ==
    IF dl.page.wikitext.text THEN extract_from_wikitext(dl.page.wikitext) ELSE EmptyMap

\* the strategy was run
Consulted(strategy) == \E k \in 1..Len(dl.strategies) : dl.strategies[k] = strategy

\* the result is the first non-empty map of the two, or the empty map
FirstWins(html, template) ==
    /\ DOMAIN html # {} =>
           /\ dl.infobox_data = html
           /\ ~Consulted("wikitext")
    /\ DOMAIN html = {} => dl.infobox_data = template
    /\ (DOMAIN html = {} /\ DOMAIN template = {}) => DOMAIN dl.infobox_data = {}

\* C20: the first strategy with a non-empty map wins.  When the HTML yields
\* an attribute the result is the HTML's map and the template markup is not
\* consulted; when the HTML yields nothing the result is the template's map;
\* when neither finds anything the result is the empty map.  Whatever the
\* page, the result is a map of keys to non-empty texts.
C20_FirstNonEmptyStrategyWins ==
    Downloaded =>
        /\ \A html \in {HtmlMap} : \A template \in {TemplateMap} :
               FirstWins(html, template)
        /\ \A key \in DOMAIN dl.infobox_data : dl.infobox_data[key] # ""

\* the HTML and the template both hold attributes, under different keys, and
\* the result is the HTML's map
C20_Witness ==
    /\ Downloaded
    /\ DOMAIN HtmlMap # {}
    /\ DOMAIN TemplateMap \ DOMAIN HtmlMap # {}
    /\ dl.infobox_data = HtmlMap
    /\ ~Consulted("wikitext")

\* ------------------------------------------------------------------------
\* The page without an infobox and without a versions table
\* ------------------------------------------------------------------------
\* the extractors found neither an attribute nor a version on the page
Minimal == Downloaded /\ dl.infobox_data = EmptyMap /\ dl.versions = <<>>

\* C21 as stated: a page with no infobox and no versions table yields exactly
\* one model whose model_name is the page title, and after the import that
\* model is in the output: the cars table holds a car of that name.
C21_MinimalRecordCarriedThrough ==
    Minimal =>
        /\ Len(dl.models) = 1
        /\ dl.models[1].model_name = S(dl.page.title)
        /\ Imported => \E k \in 1..Len(cars) : cars[k].model_name = S(dl.page.title)

\* ------------------------------------------------------------------------
\* The download run over a failing network
\* ------------------------------------------------------------------------
\* the script has ended: the models are saved, or there was no page
RunEnded == run.stage \in {"saved", "no_pages"}

\* C22 as stated: under a network that fails every request the fetcher gives
\* up after finitely many attempts: the fetch of the page list ends, the
\* loop over the pages ends, and the script with them.
C22_FetchTerminates == (run.network = "down") => <>RunEnded

\* the loop over the pages has passed a page whose fetch failed and then one
\* whose fetch succeeded
PassedFailureThenPage ==
    \E j, k \in 1..Len(run.fetched) : j < k /\ ~run.fetched[j] /\ run.fetched[k]

\* C23: in the loop of download_all_models a page whose fetch fails adds one
\* to errors and leaves models and processed as they are, the loop goes on to
\* the next page of the same list, and when the run has saved its models
\* every page of the list has been through the loop.
C23_FailedFetchSkipsPage ==
    /\ [][(run.stage = "pages" /\ Len(run'.fetched) = Len(run.fetched) + 1
               /\ ~run'.fetched[Len(run'.fetched)])
          => /\ run'.errors = run.errors + 1
             /\ run'.models = run.models
             /\ run'.processed = run.processed
             /\ run'.all_pages = run.all_pages
             /\ run'.i = run.i + 1
             /\ run'.stage = IF run'.i < Len(run.all_pages) THEN "pages" ELSE "saved"]_vars
    /\ [](run.stage = "pages" => Len(run.fetched) = run.i /\ run.i < Len(run.all_pages))
    /\ [](run.stage = "saved" =>
              /\ Len(run.fetched) = Len(run.all_pages)
              /\ run.saved = run.models
              /\ \A k \in 1..Len(run.fetched) :
                     run.fetched[k] =>
                         \E m \in 1..Len(run.models) :
                             run.models[m].page_title
                                 = S(WikiPage(run.all_pages[k]).title))

C23_Witness ==
    /\ run.stage = "saved"
    /\ PassedFailureThenPage
    /\ run.errors >= 1
    /\ run.models # <<>>

\* ------------------------------------------------------------------------
\* The collection
\* ------------------------------------------------------------------------
\* the requests that were answered with a collection item of the variant
AnsweredWith(variant_id) ==
    {c \in 1..Len(coll.requests) :
        /\ coll.requests[c].pc = "done"
        /\ coll.requests[c].variant_id = variant_id
        /\ coll.requests[c].resp.status = 200}

\* C24 as stated: whatever the order and the overlap of the POST /collection
\* requests, user_collection holds at most one item of a variant_id, and
\* every request answered for that variant_id is answered with the id of
\* that one item.
C24_OneItemPerVariant ==
    /\ \A j, k \in 1..Len(coll.items) :
           coll.items[j].variant_id = coll.items[k].variant_id => j = k
    /\ \A c \in 1..Len(coll.requests) :
           \A d \in AnsweredWith(coll.requests[c].variant_id) :
               c \in AnsweredWith(coll.requests[c].variant_id) =>
                   coll.requests[c].resp.id = coll.requests[d].resp.id

\* ------------------------------------------------------------------------
\* The terms of the score
\* ------------------------------------------------------------------------
\* what the year, the series and the series number add to the score of a
\* candidate, in thousandths
YearTerm(v) == IF YearMatches(v, ident.year) THEN WeightYear ELSE 0

SeriesTerm(v) == IF SeriesMatches(v, ident.series) THEN WeightSeries ELSE 0

NumberTerm(v) ==
    IF SeriesNumberMatches(v, ident.series_position, ident.series_total)
    THEN WeightSeriesNumber ELSE 0

\* the part of the k-th candidate's score that its colour added (float64
\* rounding moves a sum by at most one unit of the written score)
ColourPart(k) ==
    CandidateScore(k) - (YearTerm(ident.found[k]) + SeriesTerm(ident.found[k])
                         + NumberTerm(ident.found[k]))

\* the part that its series added
SeriesPart(k) ==
    CandidateScore(k) - (YearTerm(ident.found[k]) + NumberTerm(ident.found[k])
                         + ColorWeight(ident.found[k], ident.color))

\* x is the value w up to rounding
About(x, w) == x - w \in {-1, 0, 1}

\* the colour term as the claim gives it for the lower-cased, trimmed colours
\* a and b: `part` is 200 in the substring tier, else 120 in the token tier,
\* else 80 times the ratio num/den when the ratio is at least 0.8, else 0
TierTerm(part, a, b, ratio) ==
    IF Contains(a, b) \/ Contains(b, a) THEN About(part, 200)
    ELSE IF normalize_color_tokens(a) \cap normalize_color_tokens(b) # {}
    THEN About(part, 120)
    ELSE IF 5 * ratio.num >= 4 * ratio.den
    THEN /\ ratio.den * (part - 1) <= 80 * ratio.num
         /\ 80 * ratio.num <= ratio.den * (part + 1)
    ELSE About(part, 0)

\* C25 as stated: the colour term of a candidate's score is that of the first
\* tier that applies: 0.20 for a substring match, else 0.12 for intersecting
\* palette tokens, else 0.08 times the similarity ratio when the ratio is at
\* least 0.8, which is less than 0.08 whenever the ratio is below 1.
C25_ColourTermScaled ==
    Scored =>
        \A k \in Candidates :
            IF Truthy(ident.color) /\ Truthy(ident.found[k].body_color)
            THEN \A a \in {Strip(Lower(Str(ident.color)))} :
                 \A b \in {Strip(Lower(Str(ident.found[k].body_color)))} :
                     TierTerm(ColourPart(k), a, b,
                              fuzzy_ratio(normalize_color_string(a),
                                          normalize_color_string(b)))
            ELSE About(ColourPart(k), 0)

\* the series name as the matcher compares it: cleaned, lower-cased, trimmed
ComparedSeries(series) == Strip(Lower(Str(clean_series_name(series))))

\* C26 as stated: a candidate's score holds the series term 0.25 only when
\* the query's and the candidate's series names are both non-empty after
\* clean_series_name, lower-casing and trimming, and one contains the other.
C26_SeriesTermNeedsNames ==
    Scored =>
        \A k \in Candidates :
            SeriesPart(k) >= WeightSeries - 1 =>
                /\ Truthy(ident.series)
                /\ Truthy(ident.found[k].series_name)
                /\ ComparedSeries(ident.series) # ""
                /\ ComparedSeries(ident.found[k].series_name) # ""
                /\ \/ Contains(ComparedSeries(ident.series),
                               ComparedSeries(ident.found[k].series_name))
                   \/ Contains(ComparedSeries(ident.found[k].series_name),
                               ComparedSeries(ident.series))

\* ------------------------------------------------------------------------
\* The header of the versions table
\* ------------------------------------------------------------------------
\* the toy numbers of the VersionRows, in order
StoredToyNumbers == [k \in 1..Len(dl.versions) |-> dl.versions[k].toy_number]

\* the toy numbers the data rows hold in the column: the cells that are not
\* a placeholder, in upper case and without blanks, in the order of the rows
ToyNumbersIn(rows, column) ==
    LET kept == SelectSeq(rows, LAMBDA row : ~Discarded(row, column))
    IN  [k \in 1..Len(kept) |-> S(RemoveChar(Upper(Strip(kept[k][column])), " "))]

\* the first column of the header row that names the toy number by one of
\* the synonyms
SynonymColumn(header) ==
    SetMin({k \in 1..Len(header) : NamesToyNumber(header[k])})

\* C27 as stated: in the table selected because a header cell names the toy
\* number ("Toy #", "Toy No.", "Model #" or "Sku"), every data row with a
\* value other than "" and "-" in that column yields a VersionRow with that
\* value as its toy_number.
C27_SynonymColumnIsToyNumber ==
    (Downloaded /\ PageTable # <<>> /\ Len(PageTable) >= 2) =>
        \A table \in {PageTable} :
            \A header \in {table[HeaderRowIndex(table)]} :
                StoredToyNumbers =
                    ToyNumbersIn(RowsAfterHeader(table), SynonymColumn(header))

\* the columns of the header row that map to the semantic column
ColumnsMappedTo(header, column) ==
    {k \in 1..Len(header) :
        ColumnOf(normalize_header(Lower(CellText(header[k])))) = column}

\* C30 as stated: when two header cells map to toy_number (as "Toy #" and
\* "Series #" do), the toy_number of every VersionRow is read from the cell
\* under the leftmost of them.
C30_LeftmostHeaderWins ==
    (Downloaded /\ PageTable # <<>> /\ Len(PageTable) >= 2) =>
        \A table \in {PageTable} :
            \A columns \in {ColumnsMappedTo(table[HeaderRowIndex(table)], "toy_num")} :
                Cardinality(columns) >= 2 =>
                    StoredToyNumbers =
                        ToyNumbersIn(RowsAfterHeader(table), SetMin(columns))

\* ------------------------------------------------------------------------
\* The import run twice
\* ------------------------------------------------------------------------
\* the rows of a table
Stored(variantsT) == {variantsT[k] : k \in 1..Len(variantsT)}

\* C28 as stated: a run of import_data after the first one on the same JSON
\* file finds every variant already stored, prepares no Car and no Variant
\* for insertion and leaves both tables as they were; and within a run two
\* identical variant sources of one car give one stored variant.
C28_ReimportAddsNothing ==
    /\ [][imp.runs >= 1 =>
              /\ imp'.cars_to_insert = <<>> /\ imp'.variants_to_insert = <<>>
              /\ cars' = cars /\ variants' = variants]_vars
    /\ [](imp.runs >= 1 =>
             \A j, k \in 1..Len(imp.variants_to_insert) :
                 (/\ imp.variants_to_insert[j].source = imp.variants_to_insert[k].source
                  /\ imp.variants_to_insert[j].row.car_id
                         = imp.variants_to_insert[k].row.car_id
                  /\ imp.variants_to_insert[j].row \in Stored(variants)
                  /\ imp.variants_to_insert[k].row \in Stored(variants)) => j = k)
\* ------------------------------------------------------------------------
\* The incremental update
\* ------------------------------------------------------------------------
\* an entry of the file before the run that is filed under a page
EntriesOfPages == {m \in Range(upd.data) : Truthy(m.page_title)}

\* the pages the run fetched again
FetchedAgain == Range(FirstPages(upd.pages_without_versions))

\* C29 as stated: the update only adds data: every entry the JSON file held
\* for a page is in the file the update wrote, whatever the page's versions
\* table holds; and a page that was not fetched again has the entries it
\* had, in their order.
C29_UpdateOnlyAdds ==
    upd.stage = "written" =>
        /\ EntriesOfPages \subseteq Range(upd.output)
        /\ \A page_title \in Range(load_existing_data(upd.data, {})) \ FetchedAgain :
               ModelsOfPage(upd.output, page_title) = ModelsOfPage(upd.data, page_title)

====
